---- MODULE Spec2Model ----
(***************************************************************************)
(* Model of the crawl orchestration of EXPLOITFINDER/crawler: the          *)
(* coordinator loop of crawl(), the page session run by                    *)
(* processUrlAndExtractData(), the link filter of extractInfo() and the    *)
(* JSON walk of extractDataFromJson().                                     *)
(*                                                                         *)
(* JavaScript strings are sequences of one-character strings, so that      *)
(* startsWith, split and URL resolution are computed, not assumed.         *)
(***************************************************************************)
EXTENDS Integers, Sequences, FiniteSets, TLC

(***************************************************************************)
(* Program constants.                                                      *)
(***************************************************************************)
MAX_DEPTH == 3

MAX_CONCURRENT_PAGES == 5

WAIT_TIME == 5000

(***************************************************************************)
(* Strings.  Bind and Bind2 apply an operator to the values of their       *)
(* arguments, so that a string an operator reads several times is computed *)
(* once.                                                                   *)
(***************************************************************************)
Bind(x, F(_)) == CHOOSE r \in {F(v) : v \in {x}} : TRUE

Bind2(x, y, F(_, _)) == CHOOSE r \in {F(v, w) : v \in {x}, w \in {y}} : TRUE

\* String.prototype.startsWith
StartsWith(s, p) ==
  Bind2(s, p, LAMBDA a, b : Len(b) <= Len(a) /\ SubSeq(a, 1, Len(b)) = b)

\* String.prototype.indexOf for a single character, 1-based; 0 when absent
IndexOf(s, c) ==
  Bind(s, LAMBDA a :
    IF \E i \in 1..Len(a) : a[i] = c
      THEN CHOOSE i \in 1..Len(a) : a[i] = c /\ \A j \in 1..(i - 1) : a[j] # c
      ELSE 0)

\* s.split(c)[0]
SplitFirst(s, c) ==
  Bind(s, LAMBDA a :
    Bind(IndexOf(a, c), LAMBDA k : IF k = 0 THEN a ELSE SubSeq(a, 1, k - 1)))

\* the part of s after its first n characters
Drop(s, n) == Bind(s, LAMBDA a : SubSeq(a, n + 1, Len(a)))

\* the last index of c in s, 0 when absent (String.prototype.lastIndexOf)
LastIndexOf(s, c) ==
  Bind(s, LAMBDA a :
    IF \E i \in 1..Len(a) : a[i] = c
      THEN CHOOSE i \in 1..Len(a) : a[i] = c /\ \A j \in (i + 1)..Len(a) : a[j] # c
      ELSE 0)

HTTP == <<"h", "t", "t", "p", ":", "/", "/">>

HTTPS == <<"h", "t", "t", "p", "s", ":", "/", "/">>

JAVASCRIPT == <<"j", "a", "v", "a", "s", "c", "r", "i", "p", "t", ":">>

(***************************************************************************)
(* The URL class of Node (WHATWG URL), for http and https URLs made of a   *)
(* scheme, an authority, a path and a fragment.  A URL that cannot be      *)
(* parsed is the value Invalid: the constructor throws.                    *)
(***************************************************************************)
Invalid == <<"!">>

\* the segments of a path: "/p/x" -> << "p", "x" >>, "/p/" -> << "p", "" >>
RECURSIVE Segments(_)
Segments(path) ==
  Bind(path, LAMBDA p :
    IF p = <<>> THEN <<>>
    ELSE Bind(SplitFirst(Drop(p, 1), "/"), LAMBDA seg :      \* p[1] = "/"
           <<seg>> \o Segments(Drop(p, 1 + Len(seg)))))

\* dot-segment removal over a list of segments
RECURSIVE RemoveDots(_, _)
RemoveDots(segs, out) ==
  Bind2(segs, out, LAMBDA sg, o :
    IF sg = <<>> THEN o
    ELSE LET s    == Head(sg)
             last == Len(sg) = 1
         IN  IF s = <<".", ".">>
               THEN RemoveDots(Tail(sg),
                      (IF o = <<>> THEN o ELSE SubSeq(o, 1, Len(o) - 1))
                        \o (IF last THEN << <<>> >> ELSE <<>>))
             ELSE IF s = <<".">>
               THEN RemoveDots(Tail(sg), o \o (IF last THEN << <<>> >> ELSE <<>>))
             ELSE RemoveDots(Tail(sg), o \o <<s>>))

RECURSIVE JoinPath(_)
JoinPath(segs) ==
  Bind(segs, LAMBDA sg :
    IF sg = <<>> THEN <<>> ELSE <<"/">> \o Head(sg) \o JoinPath(Tail(sg)))

\* the normalised path: never empty, dot segments removed
NormPath(path) ==
  Bind(path, LAMBDA a :
    IF a = <<>> THEN <<"/">>
    ELSE Bind(JoinPath(RemoveDots(Segments(a), <<>>)), LAMBDA p :
           IF p = <<>> THEN <<"/">> ELSE p))

\* an absolute http(s) URL string split into its parts
SchemeOf(s) == IF StartsWith(s, HTTPS) THEN HTTPS ELSE HTTP

AfterScheme(s) == Bind(s, LAMBDA a : Drop(a, Len(SchemeOf(a))))

AuthorityOf(s) == SplitFirst(SplitFirst(AfterScheme(s), "/"), "#")

PathOf(s) ==
  Bind(s, LAMBDA a : SplitFirst(Drop(AfterScheme(a), Len(AuthorityOf(a))), "#"))

FragmentOf(s) ==
  Bind(s, LAMBDA a :
    Bind(IndexOf(a, "#"), LAMBDA k : IF k = 0 THEN <<>> ELSE SubSeq(a, k, Len(a))))

IsAbsolute(s) == Bind(s, LAMBDA a : StartsWith(a, HTTP) \/ StartsWith(a, HTTPS))

\* new URL(s).toString() for an absolute http(s) string
ParseAbsolute(s) ==
  Bind(s, LAMBDA a :
    Bind(AuthorityOf(a), LAMBDA authority :
      IF authority = <<>> THEN Invalid
      ELSE SchemeOf(a) \o authority \o NormPath(PathOf(a)) \o FragmentOf(a)))

\* new URL(u).origin, for u the string of a parsed URL
Origin(u) == Bind(u, LAMBDA a : SchemeOf(a) \o AuthorityOf(a))

\* new URL(u).pathname
Pathname(u) == PathOf(u)

\* a scheme other than http(s) at the start of a reference, e.g. "javascript:"
HasOtherScheme(ref) ==
  Bind(ref, LAMBDA r :
    Bind(IndexOf(r, ":"), LAMBDA k :
      /\ k > 1
      /\ \A i \in 1..(k - 1) : r[i] \notin {"/", "#", "."}
      /\ ~IsAbsolute(r)))

\* new URL(ref, base).toString(), base the string of a parsed URL
ResolveUrl(ref, base) ==
  Bind2(ref, base, LAMBDA r, b :
    IF b = Invalid THEN Invalid
    ELSE IF IsAbsolute(r) THEN ParseAbsolute(r)
    ELSE IF HasOtherScheme(r) THEN r
    ELSE IF r = <<>> THEN SplitFirst(b, "#")
    ELSE IF r[1] = "#" THEN SplitFirst(b, "#") \o r
    ELSE IF StartsWith(r, <<"/", "/">>)
      THEN ParseAbsolute(SubSeq(SchemeOf(b), 1, Len(SchemeOf(b)) - 2) \o r)
    ELSE IF r[1] = "/"
      THEN Origin(b) \o NormPath(SplitFirst(r, "#")) \o FragmentOf(r)
    ELSE Bind(Pathname(b), LAMBDA path :
           Origin(b) \o NormPath(SubSeq(path, 1, LastIndexOf(path, "/"))
                                   \o SplitFirst(r, "#")) \o FragmentOf(r)))

(***************************************************************************)
(* The pages the environment serves.  Page URLs are under the start        *)
(* origin http://a; http://ab and http://a:8 are other origins whose       *)
(* string form has the start origin as a prefix, http://b is one that has  *)
(* not.                                                                    *)
(***************************************************************************)
startUrl == HTTP \o <<"a", "/">>

PageUrl(c) == HTTP \o <<"a", "/", c>>

ABOUT_BLANK == <<"a", "b", "o", "u", "t", ":", "b", "l", "a", "n", "k">>

\* the number of network events the observers of one page see
MaxEvents == 1

\* the number of form elements of a page the extraction reaches
MaxForms == 2

\* how often a page grows while it is scrolled
MaxGrowth == 1

\* how many objects enclose the property of the deepest JSON body
MaxNesting == 2

\* the site map: one root-relative anchor per page of the site
SiteMap == << <<"/", "1">>, <<"/", "2">>, <<"/", "3">>, <<"/", "4">>,
              <<"/", "5">>, <<"/", "6">> >>

Range(f) == {f[i] : i \in DOMAIN f}

\* the first n elements of q
Truncate(q, n) == SubSeq(q, 1, IF Len(q) < n THEN Len(q) ELSE n)

(***************************************************************************)
(* A world is the site one run crawls: the anchors each page holds (a page *)
(* not listed holds none; a page listed twice holds either), where a       *)
(* navigation and a form submission may land, the responses a page         *)
(* receives and the strings their JSON bodies hold under which keys, the   *)
(* requests a page makes, the form elements a page may hold (a page listed *)
(* twice holds either list, on its first load and after each submission    *)
(* anew), the matches of the patterns in its inline scripts, the src and   *)
(* href of its scripts, stylesheets and images, what the framework probes  *)
(* find, and whether steps of a session may fail.                          *)
(***************************************************************************)
NoRequests == {}

GET == <<"G", "E", "T">>

POST == <<"P", "O", "S", "T">>

\* the response to an XMLHttpRequest, its body JSON
Xhr(status) ==
  [ status |-> status, method |-> GET, url |-> PageUrl("d"), resourceType |-> "xhr",
    json |-> TRUE ]

\* the response to the request of a document under /api/, its body HTML
NotFound ==
  [ status |-> 404, method |-> POST, url |-> startUrl \o <<"a", "p", "i", "/", "d">>,
    resourceType |-> "document", json |-> FALSE ]

\* <form> without attributes
PlainForm == [action |-> <<>>, method |-> <<>>, fields |-> <<>>]

\* <form action="http://" method="post">: stored as it is, rejected by submitForm
ThrowingForm == [action |-> HTTP, method |-> <<"p", "o", "s", "t">>, fields |-> <<>>]

\* the input and textarea elements of a form without attributes: text fields
\* named Email, name_search, surname and q (with id q1), a textarea
\* query_name, a password, number, tel, url and email field, a hidden field, a
\* checkbox, an input without type attribute and a text field without name
\* and id
SignupFields ==
  << [name |-> <<"E", "m", "a", "i", "l">>, type |-> <<"t", "e", "x", "t">>, id |-> <<>>],
     [name |-> <<"n", "a", "m", "e", "_", "s", "e", "a", "r", "c", "h">>, type |-> <<"t", "e", "x", "t">>, id |-> <<>>],
     [name |-> <<"q", "u", "e", "r", "y", "_", "n", "a", "m", "e">>, type |-> <<"t", "e", "x", "t", "a", "r", "e", "a">>, id |-> <<>>],
     [name |-> <<"s", "u", "r", "n", "a", "m", "e">>, type |-> <<"t", "e", "x", "t">>, id |-> <<>>],
     [name |-> <<"q">>, type |-> <<"t", "e", "x", "t">>, id |-> <<"q", "1">>],
     [name |-> <<"e", "m", "a", "i", "l">>, type |-> <<"p", "a", "s", "s", "w", "o", "r", "d">>, id |-> <<>>],
     [name |-> <<"n">>, type |-> <<"n", "u", "m", "b", "e", "r">>, id |-> <<>>],
     [name |-> <<"t">>, type |-> <<"t", "e", "l">>, id |-> <<>>],
     [name |-> <<"u">>, type |-> <<"u", "r", "l">>, id |-> <<>>],
     [name |-> <<"e">>, type |-> <<"e", "m", "a", "i", "l">>, id |-> <<>>],
     [name |-> <<"h", "_", "e", "m", "a", "i", "l">>, type |-> <<"h", "i", "d", "d", "e", "n">>, id |-> <<>>],
     [name |-> <<"c">>, type |-> <<"c", "h", "e", "c", "k", "b", "o", "x">>, id |-> <<>>],
     [name |-> <<"i">>, type |-> <<"i", "n", "p", "u", "t">>, id |-> <<>>],
     [name |-> <<>>, type |-> <<"t", "e", "x", "t">>, id |-> <<>>] >>

SignupForm == [action |-> <<>>, method |-> <<>>, fields |-> SignupFields]

\* <form action="httpx">: a relative path whose text begins with http
HttpPathForm == [action |-> <<"h", "t", "t", "p", "x">>, method |-> <<>>, fields |-> <<>>]

\* <form method="put">
PutForm == [action |-> <<>>, method |-> <<"p", "u", "t">>, fields |-> <<>>]

\* <form action="//">: new URL(action, base) throws at extraction
BadActionForm == [action |-> <<"/", "/">>, method |-> <<>>, fields |-> <<>>]

\* a start page that is the site map: more pages than sessions may run at once
FanWorld ==
  [ name           |-> "fan",
    pages          |-> { [at |-> startUrl, anchors |-> SiteMap] },
    landings       |-> {},
    submitLandings |-> {},
    json           |-> {},
    requests       |-> NoRequests,
    forms          |-> {},
    scripts        |-> {},
    resources      |-> {},
    scrollHeight   |-> 0,
    growth         |-> 0,
    frameworks     |-> {{}},
    concurrency    |-> MAX_CONCURRENT_PAGES,
    faults         |-> FALSE ]

\* a site without cycles, deeper than MAX_DEPTH, two of its pages linking to
\* the same page
DagWorld ==
  [ name           |-> "dag",
    pages          |-> { [at |-> startUrl,    anchors |-> << <<"/", "1">>, <<"/", "2">> >>],
                         [at |-> PageUrl("1"), anchors |-> << <<"/", "3">> >>],
                         [at |-> PageUrl("2"), anchors |-> << <<"/", "3">> >>],
                         [at |-> PageUrl("2"), anchors |-> << >>],
                         [at |-> PageUrl("3"), anchors |-> << <<"/", "4">> >>],
                         [at |-> PageUrl("4"), anchors |-> << <<"/", "5">> >>] },
    landings       |-> {},
    submitLandings |-> {},
    json           |-> {},
    requests       |-> NoRequests,
    forms          |-> {},
    scripts        |-> {},
    resources      |-> {},
    scrollHeight   |-> 0,
    growth         |-> 0,
    frameworks     |-> {{}},
    concurrency    |-> MAX_CONCURRENT_PAGES,
    faults         |-> FALSE ]

\* fetch('/api/x', {method: 'post'});  url: 'api/login';
\* axios.get('http://b/v');  $.ajax('/graphql');  fetch('//c/x');  fetch('//')
HomeScripts ==
  << [patternIndex |-> 0, groups |-> << <<>>, <<"/", "a", "p", "i", "/", "x">>, <<"p", "o", "s", "t">>, <<>> >>],
           [patternIndex |-> 5, groups |-> << <<"/", "a", "p", "i", "/", "x">>, <<>>, <<>>, <<>> >>],
           [patternIndex |-> 3, groups |-> << <<>>, <<"a", "p", "i", "/", "l", "o", "g", "i", "n">>, <<>>, <<>> >>],
           [patternIndex |-> 4, groups |-> << <<>>, <<"a", "p", "i", "/", "l", "o", "g", "i", "n">>, <<>>, <<>> >>],
           [patternIndex |-> 1, groups |-> << <<>>, <<"g", "e", "t">>, <<"h", "t", "t", "p", ":", "/", "/", "b", "/", "v">>, <<>> >>],
           [patternIndex |-> 2, groups |-> << <<>>, <<"a", "j", "a", "x">>, <<"/", "g", "r", "a", "p", "h", "q", "l">>, <<>> >>],
           [patternIndex |-> 6, groups |-> << <<"/", "g", "r", "a", "p", "h", "q", "l">>, <<>>, <<>>, <<>> >>],
           [patternIndex |-> 0, groups |-> << <<>>, <<"/", "/", "c", "/", "x">>, <<>>, <<>> >>],
           [patternIndex |-> 0, groups |-> << <<>>, <<"/", "/">>, <<>>, <<>> >>] >>

\* url: 'api/login';  '/v1/x'
PageScripts3 ==
  << [patternIndex |-> 3, groups |-> << <<>>, <<"a", "p", "i", "/", "l", "o", "g", "i", "n">>, <<>>, <<>> >>],
           [patternIndex |-> 7, groups |-> << <<"/", "v", "1", "/", "x">>, <<>>, <<>>, <<>> >>] >>

\* a site with a self-link, mutual links and a link back to the start page,
\* with inline scripts on two of its pages; its pages are higher than one
\* scroll step and load more content while they are scrolled
LoopWorld ==
  [ name           |-> "loop",
    pages          |-> { [at |-> startUrl,    anchors |-> << <<"/">>, <<"/", "1">> >>],
                         [at |-> PageUrl("1"), anchors |-> << <<"/">>, <<"/", "2">> >>],
                         [at |-> PageUrl("2"), anchors |-> << <<"/", "1">>, <<"/", "3">> >>],
                         [at |-> PageUrl("2"), anchors |-> << <<"/", "2">> >>],
                         [at |-> PageUrl("3"), anchors |-> << <<"/", "4">>, <<"/", "3">> >>],
                         [at |-> PageUrl("4"), anchors |-> << <<"/", "5">> >>] },
    landings       |-> {},
    submitLandings |-> {},
    json           |-> {},
    requests       |-> NoRequests,
    forms          |-> { [at |-> PageUrl("3"), elements |-> <<PlainForm>>],
                         [at |-> PageUrl("3"), elements |-> <<PutForm>>],
                         [at |-> PageUrl("3"), elements |-> <<BadActionForm, PlainForm>>] },
    scripts        |-> { [at |-> startUrl, matches |-> HomeScripts],
                         [at |-> PageUrl("3"), matches |-> PageScripts3] },
    resources      |-> { [at |-> PageUrl("3"), srcs |-> << <<"/", "/">>, <<"/", "s">> >>] },
    scrollHeight   |-> 250,
    growth         |-> MaxGrowth,
    frameworks     |-> {{}},
    concurrency    |-> MAX_CONCURRENT_PAGES,
    faults         |-> FALSE ]

\* a start page with anchors to other origins, a navigation that may end on
\* another origin or on the start page, and failing sessions
LinkWorld ==
  [ name           |-> "links",
    pages          |-> { [at |-> startUrl,
                          anchors |-> << <<"/", "1">>, <<"#", "f">>, HTTP \o <<"a", "b", "/">>,
                                         HTTP \o <<"b", "/">>, JAVASCRIPT \o <<"0">> >>],
                         [at |-> HTTP \o <<"b", "/", "x">>, anchors |-> << <<"/", "1">> >>] },
    landings       |-> { HTTP \o <<"b", "/", "x">>, startUrl },
    submitLandings |-> {},
    json           |-> {},
    requests       |-> NoRequests,
    forms          |-> {},
    scripts        |-> {},
    resources      |-> {},
    scrollHeight   |-> 0,
    growth         |-> 0,
    frameworks     |-> {{}, {"React"}},
    concurrency    |-> MAX_CONCURRENT_PAGES,
    faults         |-> TRUE ]

\* pages whose network traffic the observers see, a navigation that may be
\* redirected to a page with a form, and failing sessions
NetWorld ==
  [ name           |-> "net",
    pages          |-> {},
    landings       |-> { PageUrl("9") },
    submitLandings |-> { PageUrl("7") \o <<"#", "t">> },
    json           |-> { [at |-> startUrl, key |-> <<"u">>, value |-> <<"/", "3">>,
                          nesting |-> MaxNesting, response |-> Xhr(200)],
                         [at |-> startUrl, key |-> <<"u">>,
                          value |-> HTTP \o <<"a", ":", "8", "/">>, nesting |-> 0,
                          response |-> Xhr(200)],
                         [at |-> startUrl, key |-> <<"T", "o", "k", "e", "n">>,
                          value |-> HTTP \o <<"b", "/">>, nesting |-> 0,
                          response |-> Xhr(200)],
                         [at |-> startUrl, key |-> <<"T", "o", "k", "e", "n">>,
                          value |-> <<"x">>, nesting |-> 1, response |-> Xhr(500)],
                         [at |-> startUrl, key |-> <<>>, value |-> <<>>, nesting |-> 0,
                          response |-> NotFound] },
    requests       |-> { [at |-> startUrl,
                          request |-> [method |-> POST, url |-> PageUrl("1"),
                                       resourceType |-> "xhr"]],
                         [at |-> startUrl,
                          request |-> [method |-> GET, url |-> startUrl,
                                       resourceType |-> "document"]] },
    forms          |-> { [at |-> startUrl, elements |-> <<PlainForm>>],
                         [at |-> startUrl, elements |-> <<ThrowingForm>>],
                         [at |-> startUrl, elements |-> <<ThrowingForm, PlainForm>>],
                         [at |-> startUrl,
                          elements |-> <<PlainForm, PlainForm, ThrowingForm>>],
                         [at |-> PageUrl("9"), elements |-> <<SignupForm>>],
                         [at |-> PageUrl("9"), elements |-> <<HttpPathForm>>] },
    scripts        |-> {},
    resources      |-> {},
    scrollHeight   |-> 0,
    growth         |-> 0,
    frameworks     |-> {{}},
    concurrency    |-> MAX_CONCURRENT_PAGES,
    faults         |-> TRUE ]

\* pages with forms, whose submission may navigate or throw, and failing sessions
FormWorld ==
  [ name           |-> "forms",
    pages          |-> { [at |-> startUrl,
                          anchors |-> << <<"/", "1">>, <<"/", "3">>, <<"/", "4">> >>],
                         [at |-> PageUrl("3"), anchors |-> << <<"/", "2">> >>],
                         [at |-> PageUrl("2"), anchors |-> << <<"/", "4">> >>] },
    landings       |-> {},
    submitLandings |-> { PageUrl("2") },
    json           |-> {},
    requests       |-> NoRequests,
    forms          |-> { [at |-> PageUrl("1"), elements |-> <<PlainForm, PlainForm>>] },
    scripts        |-> {},
    resources      |-> {},
    scrollHeight   |-> 0,
    growth         |-> 0,
    frameworks     |-> {{}},
    concurrency    |-> MAX_CONCURRENT_PAGES,
    faults         |-> TRUE ]

\* a site where the one link to /5 lies on a short path over /1 and /4 and
\* on a long one over /2, /3 and /4, crawled one page at a time
SerialWorld ==
  [ name           |-> "serial",
    pages          |-> { [at |-> startUrl,    anchors |-> << <<"/", "1">>, <<"/", "2">> >>],
                         [at |-> PageUrl("1"), anchors |-> << <<"/", "4">> >>],
                         [at |-> PageUrl("2"), anchors |-> << <<"/", "3">> >>],
                         [at |-> PageUrl("3"), anchors |-> << <<"/", "4">> >>],
                         [at |-> PageUrl("4"), anchors |-> << <<"/", "5">> >>],
                         [at |-> PageUrl("5"), anchors |-> << <<"/", "6">> >>] },
    landings       |-> {},
    submitLandings |-> {},
    json           |-> {},
    requests       |-> NoRequests,
    forms          |-> {},
    scripts        |-> {},
    resources      |-> {},
    scrollHeight   |-> 0,
    growth         |-> 0,
    frameworks     |-> {{}},
    concurrency    |-> 1,
    faults         |-> FALSE ]

\* the same site, crawled with up to MAX_CONCURRENT_PAGES pages at a time
RaceWorld ==
  [SerialWorld EXCEPT !.name = "race", !.concurrency = MAX_CONCURRENT_PAGES]

Worlds ==
  { FanWorld, DagWorld, LoopWorld, LinkWorld, NetWorld, FormWorld, SerialWorld, RaceWorld }

VARIABLES
  world,                 \* the environment of this run
  cpc,                   \* where crawl() is
  browser,               \* "none", "open" or "closed"
  pages,                 \* the pages open in the browser, by the URL of their session
  queue,                 \* crawl's queue of {url, depth}
  activePages,           \* crawl's Map url -> promise, with the state of its session
  raceSettled,           \* a promise given to the pending Promise.race has settled
  visited,
  linksFound,
  formsFound,
  endpointsFound,
  requestsToReplicate,
  reactComponentsFound,
  jsFrameworksDetected,
  launches,              \* history: calls of puppeteer.launch that returned a browser
  closes,                \* history: calls of browser.close
  processed,             \* history: how often each URL passed the guard at line 599
  sessionFailed          \* history: a session has failed

vars == << world, cpc, browser, pages, queue, activePages, raceSettled, visited,
           linksFound, formsFound, endpointsFound, requestsToReplicate,
           reactComponentsFound, jsFrameworksDetected,
           launches, closes, processed, sessionFailed >>

(***************************************************************************)
(* extractInfo: the anchors of the page.                                   *)
(***************************************************************************)
\* Set.prototype.add on a Set kept in insertion order
SetAdd(q, x) == Bind2(q, x, LAMBDA a, b : IF b \in Range(a) THEN a ELSE Append(a, b))

\* the same-origin test of the link filter: a string-prefix test
SameOriginTest(fullUrl, base) == StartsWith(fullUrl, Origin(base))

\* a variant of lines 286-303 without line 299, which keeps the fragment
AnchorLinkUnstripped(links, href, currentActualUrl) ==
  IF href = <<>> THEN links
  ELSE IF StartsWith(href, JAVASCRIPT) THEN links
  ELSE Bind(IF href[1] = "#" THEN currentActualUrl \o href
            ELSE ResolveUrl(href, currentActualUrl), LAMBDA fullUrl :
         IF fullUrl = Invalid THEN links
         ELSE IF SameOriginTest(fullUrl, currentActualUrl)
           THEN SetAdd(links, fullUrl)
         ELSE links)

\* the body of $('a[href]').each: the links after one anchor
AnchorLink(links, href, currentActualUrl) ==
  IF href = <<>> THEN links
  ELSE IF StartsWith(href, JAVASCRIPT) THEN links
  ELSE Bind(IF href[1] = "#" THEN currentActualUrl \o href
            ELSE ResolveUrl(href, currentActualUrl), LAMBDA fullUrl :
         IF fullUrl = Invalid THEN links
         ELSE Bind(SplitFirst(fullUrl, "#"), LAMBDA stripped :
                IF SameOriginTest(stripped, currentActualUrl)
                  THEN SetAdd(links, stripped)
                ELSE links))

\* the body of $('a[href]').each in advanced-crawler.js, where url is the URL
\* extractInfo was called with and base is new URL(url)
AnchorLinkOfUrl(links, href, url) ==
  IF href = <<>> THEN links
  ELSE IF StartsWith(href, JAVASCRIPT) THEN links
  ELSE Bind(IF href[1] = "#" THEN url \o href
            ELSE ResolveUrl(href, url), LAMBDA fullUrl :
         IF fullUrl = Invalid THEN links
         ELSE Bind(SplitFirst(fullUrl, "#"), LAMBDA stripped :
                IF StartsWith(stripped, Origin(url))
                  THEN SetAdd(links, stripped)
                ELSE links))

RECURSIVE ExtractLinks(_, _, _)
ExtractLinks(links, anchors, currentActualUrl) ==
  Bind2(links, anchors, LAMBDA found, left :
    IF left = <<>> THEN found
    ELSE ExtractLinks(AnchorLink(found, Head(left), currentActualUrl),
                      Tail(left), currentActualUrl))

(***************************************************************************)
(* extractInfo: the form elements of the page.                             *)
(***************************************************************************)
UpperCaseChar(c) ==
  CASE c = "g" -> "G" [] c = "e" -> "E" [] c = "t" -> "T" [] c = "p" -> "P"
    [] c = "o" -> "O" [] c = "s" -> "S" [] c = "u" -> "U" [] OTHER -> c

ToUpperCase(s) == [i \in DOMAIN s |-> UpperCaseChar(s[i])]

\* the formDetails object of one form element; its action is Invalid when
\* new URL throws
FormDetails(form, url, currentActualUrl) ==
  Bind(IF form.action = <<>> THEN currentActualUrl ELSE form.action, LAMBDA action :
    [ url    |-> url,
      action |-> IF StartsWith(action, <<"h", "t", "t", "p">>) THEN action
                 ELSE ResolveUrl(action, currentActualUrl),
      method |-> ToUpperCase(IF form.method = <<>> THEN <<"g", "e", "t">>
                             ELSE form.method),
      fields |-> form.fields ])

\* the formDetails object of advanced-crawler.js, where url is the URL
\* extractInfo was called with and base is new URL(url)
FormDetailsOfUrl(form, url) ==
  Bind(IF form.action = <<>> THEN url ELSE form.action, LAMBDA action :
    [ url    |-> url,
      action |-> IF StartsWith(action, <<"h", "t", "t", "p">>) THEN action
                 ELSE ResolveUrl(action, url),
      method |-> ToUpperCase(IF form.method = <<>> THEN <<"g", "e", "t">>
                             ELSE form.method),
      fields |-> form.fields ])

RECURSIVE ExtractForms(_, _, _)
ExtractForms(formElements, url, currentActualUrl) ==
  Bind(formElements, LAMBDA left :
    IF left = <<>> THEN <<>>
    ELSE <<FormDetails(Head(left), url, currentActualUrl)>>
           \o ExtractForms(Tail(left), url, currentActualUrl))

(***************************************************************************)
(* extractDataFromJson, for a body that is an object of string values.     *)
(***************************************************************************)
\* the tags of the entries of pageData.endpoints
INTERCEPTED == <<"[", "I", "N", "T", "E", "R", "C", "E", "P", "T", "E", "D", "]">>

API_ERROR_ == <<"[", "A", "P", "I", "_", "E", "R", "R", "O", "R", "_">>

JSON_API_RESPONSE ==
  <<"[", "J", "S", "O", "N", "_", "A", "P", "I", "_", "R", "E", "S", "P", "O", "N", "S", "E", "]">>

JSON_SENSITIVE_KEY ==
  <<"[", "J", "S", "O", "N", "_", "S", "E", "N", "S", "I", "T", "I", "V", "E", "_", "K", "E", "Y", "]">>

SCRIPT_EVIDENT == <<"[", "S", "C", "R", "I", "P", "T", "_", "E", "V", "I", "D", "E", "N", "T", "]">>

SCRIPT_URL_ONLY == <<"[", "S", "C", "R", "I", "P", "T", "_", "U", "R", "L", "_", "O", "N", "L", "Y", "]">>

RESOURCE_URL == <<"[", "R", "E", "S", "O", "U", "R", "C", "E", "_", "U", "R", "L", "]">>

SP == <<" ">>

API == <<"/", "a", "p", "i", "/">>

GRAPHQL == <<"/", "g", "r", "a", "p", "h", "q", "l">>

JsonLinkTest(fullUrl, basePageUrl) == StartsWith(fullUrl, Origin(basePageUrl))

JsonString(pageData, value, basePageUrl) ==
  IF ~(StartsWith(value, <<"/">>) \/ StartsWith(value, HTTP) \/ StartsWith(value, HTTPS))
    THEN pageData
  ELSE Bind(ResolveUrl(value, basePageUrl), LAMBDA resolved :
         IF resolved = Invalid THEN pageData
         ELSE Bind(SplitFirst(resolved, "#"), LAMBDA fullUrl :
                IF JsonLinkTest(fullUrl, basePageUrl)
                  THEN [pageData EXCEPT !.links = SetAdd(@, fullUrl)]
                ELSE [pageData EXCEPT !.endpoints =
                        @ \cup {JSON_API_RESPONSE \o SP \o fullUrl}]))

LowerCaseChar(c) ==
  CASE c = "T" -> "t" [] c = "S" -> "s" [] c = "K" -> "k" [] c = "U" -> "u"
    [] c = "G" -> "g" [] c = "E" -> "e" [] c = "P" -> "p" [] c = "O" -> "o" [] OTHER -> c

ToLowerCase(s) == [i \in DOMAIN s |-> LowerCaseChar(s[i])]

TOKEN == <<"t", "o", "k", "e", "n">>

SESSION == <<"s", "e", "s", "s", "i", "o", "n">>

\* String.prototype.includes
Includes(s, sub) ==
  \E i \in 0..(Len(s) - Len(sub)) : SubSeq(s, i + 1, i + Len(sub)) = sub

\* the text of the marker of a sensitive key: `${key} on ${basePageUrl}`
KeyOnPage(key, basePageUrl) == key \o <<" ", "o", "n", " ">> \o basePageUrl

\* lines 77-95: one own property of the body whose value is a string
JsonEntry(pageData, key, value, basePageUrl) ==
  Bind(JsonString(pageData, value, basePageUrl), LAMBDA walked :
    IF Includes(ToLowerCase(key), TOKEN) \/ Includes(ToLowerCase(key), SESSION)
      THEN [walked EXCEPT !.endpoints =
              @ \cup {JSON_SENSITIVE_KEY \o SP \o KeyOnPage(key, basePageUrl)}]
    ELSE walked)

\* lines 73-106: the walk of a body whose one string property lies under
\* nesting objects; line 99 descends into each of them
RECURSIVE extractDataFromJson(_, _, _, _, _)
extractDataFromJson(pageData, nesting, key, value, basePageUrl) ==
  IF nesting = 0 THEN JsonEntry(pageData, key, value, basePageUrl)
  ELSE extractDataFromJson(pageData, nesting - 1, key, value, basePageUrl)

\* the number of calls of line 99 that are open when the walk reaches the
\* property
RECURSIVE WalkDepth(_)
WalkDepth(nesting) == IF nesting = 0 THEN 0 ELSE 1 + WalkDepth(nesting - 1)

(***************************************************************************)
(* submitForm: the fields it types into.                                   *)
(***************************************************************************)
EMAIL_VALUE ==
  <<"t", "e", "s", "t", "@", "e", "x", "a", "m", "p", "l", "e", ".", "c", "o", "m">>

SEARCH_VALUE == <<"t", "e", "s", "t", " ", "s", "e", "a", "r", "c", "h">>

QUERY_VALUE == <<"t", "e", "s", "t", " ", "q", "u", "e", "r", "y">>

NAME_VALUE == <<"T", "e", "s", "t", " ", "N", "a", "m", "e">>

TEXT_VALUE == <<"t", "e", "s", "t">>

PASSWORD_VALUE == <<"P", "a", "s", "s", "w", "o", "r", "d", "1", "2", "3", "!">>

NUMBER_VALUE == <<"1", "2", "3">>

TEL_VALUE == <<"1", "2", "3", "4", "5", "6", "7", "8", "9", "0">>

URL_VALUE ==
  <<"h", "t", "t", "p", ":", "/", "/", "e", "x", "a", "m", "p", "l", "e", ".", "c", "o", "m">>

\* line 442: the selector of a field, empty for null
Selector(field) ==
  IF field.id # <<>> THEN <<"#">> \o field.id
  ELSE IF field.name # <<>>
    THEN <<"[", "n", "a", "m", "e", "=", "\"">> \o field.name \o <<"\"", "]">>
  ELSE <<>>

\* a variant of lines 457-461 that reads the name as it is written
KeywordValueAsWritten(name) ==
  IF Includes(name, <<"e", "m", "a", "i", "l">>) THEN EMAIL_VALUE
  ELSE IF Includes(name, <<"s", "e", "a", "r", "c", "h">>) THEN SEARCH_VALUE
  ELSE IF Includes(name, <<"q", "u", "e", "r", "y">>) THEN QUERY_VALUE
  ELSE IF Includes(name, <<"n", "a", "m", "e">>) THEN NAME_VALUE
  ELSE TEXT_VALUE

\* lines 457-461: the value of a text field or textarea of the given name
KeywordValue(name) ==
  Bind(ToLowerCase(name), LAMBDA lower :
    IF Includes(lower, <<"e", "m", "a", "i", "l">>) THEN EMAIL_VALUE
    ELSE IF Includes(lower, <<"s", "e", "a", "r", "c", "h">>) THEN SEARCH_VALUE
    ELSE IF Includes(lower, <<"q", "u", "e", "r", "y">>) THEN QUERY_VALUE
    ELSE IF Includes(lower, <<"n", "a", "m", "e">>) THEN NAME_VALUE
    ELSE TEXT_VALUE)

\* lines 451-516: valueToFill, empty when the switch types nothing (hidden,
\* select, checkbox, radio and every other type)
ValueToFill(field) ==
  CASE field.type \in {<<"t", "e", "x", "t">>, <<"t", "e", "x", "t", "a", "r", "e", "a">>} ->
         KeywordValue(field.name)
    [] field.type = <<"e", "m", "a", "i", "l">> -> EMAIL_VALUE
    [] field.type = <<"p", "a", "s", "s", "w", "o", "r", "d">> -> PASSWORD_VALUE
    [] field.type = <<"n", "u", "m", "b", "e", "r">> -> NUMBER_VALUE
    [] field.type = <<"t", "e", "l">> -> TEL_VALUE
    [] field.type = <<"u", "r", "l">> -> URL_VALUE
    [] OTHER -> <<>>

\* lines 440-523: the calls of page.type for the fields of a form, each field
\* found on the page
RECURSIVE TypedInto(_)
TypedInto(fields) ==
  Bind(fields, LAMBDA left :
    IF left = <<>> THEN <<>>
    ELSE (IF Selector(Head(left)) = <<>> \/ ValueToFill(Head(left)) = <<>> THEN <<>>
          ELSE << [selector |-> Selector(Head(left)), value |-> ValueToFill(Head(left))] >>)
         \o TypedInto(Tail(left)))

(***************************************************************************)
(* extractInfo: the inline scripts of the page.  A match is what            *)
(* pattern.exec returns: the index of its pattern and matchInstance[0..3],  *)
(* here groups[1..4], a group that did not take part being empty.           *)
(***************************************************************************)
\* lines 364-370: extractedUrlString, empty for null
ExtractedUrlString(match) ==
  CASE match.patternIndex = 0 -> match.groups[2]
    [] match.patternIndex = 1 -> match.groups[3]
    [] match.patternIndex = 2 -> IF match.groups[3] # <<>> THEN match.groups[3]
                                 ELSE match.groups[4]
    [] match.patternIndex \in {3, 4} -> match.groups[2]
    [] OTHER -> match.groups[1]

\* a variant of lines 364-368 that keeps the method as the script spells it
InferredMethodAsWritten(match) ==
  CASE match.patternIndex = 0 -> match.groups[3]
    [] match.patternIndex = 1 -> match.groups[2]
    [] match.patternIndex = 2 ->
         IF ToLowerCase(match.groups[2]) \in {<<"g", "e", "t">>, <<"p", "o", "s", "t">>}
           THEN match.groups[2] ELSE <<>>
    [] match.patternIndex = 6 /\ Includes(match.groups[1], GRAPHQL) -> POST
    [] OTHER -> <<>>

\* lines 364-368: inferredMethod, empty for null
InferredMethod(match) ==
  CASE match.patternIndex = 0 -> ToUpperCase(match.groups[3])
    [] match.patternIndex = 1 -> ToUpperCase(match.groups[2])
    [] match.patternIndex = 2 ->
         IF ToLowerCase(match.groups[2]) \in {<<"g", "e", "t">>, <<"p", "o", "s", "t">>}
           THEN ToUpperCase(match.groups[2]) ELSE <<>>
    [] match.patternIndex = 6 /\ Includes(match.groups[1], GRAPHQL) -> POST
    [] OTHER -> <<>>

\* lines 373-384: fullEndpointURL, Invalid when new URL throws; a candidate
\* that starts with neither "/" nor a scheme is resolved against the
\* directory of the page
FullEndpointURL(extractedUrlString, baseForExtraction) ==
  Bind2(extractedUrlString, Pathname(baseForExtraction), LAMBDA candidate, pathname :
    IF StartsWith(candidate, <<"/">>) THEN ResolveUrl(candidate, baseForExtraction)
    ELSE IF StartsWith(candidate, HTTP) \/ StartsWith(candidate, HTTPS) THEN candidate
    ELSE IF pathname[Len(pathname)] = "/"
      THEN ResolveUrl(pathname \o candidate, baseForExtraction)
    ELSE ResolveUrl(SubSeq(pathname, 1, LastIndexOf(pathname, "/")) \o candidate,
                    baseForExtraction))

\* lines 386-389: the entry added for a match whose URL is fullEndpointURL
ScriptEntry(match, fullEndpointURL) ==
  Bind(InferredMethod(match), LAMBDA inferredMethod :
    IF inferredMethod # <<>>
      THEN SCRIPT_EVIDENT \o SP \o inferredMethod \o SP \o fullEndpointURL
    ELSE IF match.patternIndex = 6 /\ Includes(fullEndpointURL, GRAPHQL)
      THEN SCRIPT_EVIDENT \o SP \o POST \o SP \o fullEndpointURL
    ELSE SCRIPT_URL_ONLY \o SP \o fullEndpointURL)

\* lines 360-390: the entries one match adds to pageData.endpoints
ScriptEntries(match, baseForExtraction) ==
  Bind(ExtractedUrlString(match), LAMBDA extractedUrlString :
    IF extractedUrlString = <<>> THEN {}
    ELSE Bind(FullEndpointURL(extractedUrlString, baseForExtraction), LAMBDA full :
           IF full = Invalid THEN {} ELSE {ScriptEntry(match, full)}))

\* the same in advanced-crawler.js: the base is the requested URL, and a
\* candidate that starts with neither "/" nor a scheme is passed over
ScriptEntriesOfUrl(match, url) ==
  Bind(ExtractedUrlString(match), LAMBDA candidate :
    IF candidate = <<>> THEN {}
    ELSE IF StartsWith(candidate, <<"/">>)
      THEN Bind(ResolveUrl(candidate, url), LAMBDA full :
             IF full = Invalid THEN {} ELSE {ScriptEntry(match, full)})
    ELSE IF StartsWith(candidate, HTTP) \/ StartsWith(candidate, HTTPS)
      THEN {ScriptEntry(match, candidate)}
    ELSE {})

\* lines 343-393: the matches of the inline scripts, in order
RECURSIVE ExtractScripts(_, _, _)
ExtractScripts(pageData, matches, baseForExtraction) ==
  Bind2(pageData, matches, LAMBDA data, left :
    IF left = <<>> THEN data
    ELSE ExtractScripts(
           [data EXCEPT !.endpoints = @ \cup ScriptEntries(Head(left), baseForExtraction)],
           Tail(left), baseForExtraction))

(***************************************************************************)
(* extractInfo: the script, link, img and source elements of the page.     *)
(***************************************************************************)
\* line 401: the framework a resource URL names
ResourceFrameworks(src) ==
  IF Includes(src, <<"r", "e", "a", "c", "t">>) THEN {"React"}
  ELSE IF Includes(src, <<"v", "u", "e">>) THEN {"Vue.js"}
  ELSE IF Includes(src, <<"a", "n", "g", "u", "l", "a", "r">>) THEN {"Angular"}
  ELSE IF Includes(src, <<"e", "m", "b", "e", "r">>) THEN {"Ember"}
  ELSE IF Includes(src, <<"b", "a", "c", "k", "b", "o", "n", "e">>) THEN {"Backbone"}
  ELSE {}

\* lines 396-409: each resource URL in a try of its own
RECURSIVE ExtractResources(_, _, _)
ExtractResources(pageData, srcs, baseForExtraction) ==
  Bind2(pageData, srcs, LAMBDA data, left :
    IF left = <<>> THEN data
    ELSE Bind(ResolveUrl(Head(left), baseForExtraction), LAMBDA full :
           ExtractResources(
             IF Head(left) = <<>> \/ full = Invalid THEN data
             ELSE [data EXCEPT
                     !.endpoints = @ \cup {RESOURCE_URL \o SP \o full},
                     !.jsFrameworks = @ \cup ResourceFrameworks(Head(left))],
             Tail(left), baseForExtraction)))

(***************************************************************************)
(* What a page may hold.                                                   *)
(***************************************************************************)
\* the anchors, in document order, the page at cur may hold
PageAnchors(w, cur) ==
  LET here == {p \in w.pages : p.at = cur}
  IN  IF here = {} THEN {<<>>} ELSE {p.anchors : p \in here}

\* the links of the site: from a page to the page an anchor of it leads to
Edges(w) ==
  UNION {{<<p.at, SplitFirst(ResolveUrl(p.anchors[i], p.at), "#")>> : i \in DOMAIN p.anchors} :
         p \in w.pages}

\* the pairs joined by a path of at most n + 1 links
RECURSIVE Paths(_, _)
Paths(E, n) ==
  IF n = 0 THEN E
  ELSE Bind(Paths(E, n - 1), LAMBDA P :
         P \cup {<<x[1][1], x[2][2]>> : x \in {y \in P \X E : y[1][2] = y[2][1]}})

\* the site has a cycle of links: a self-link, mutual links, a longer loop
Cyclic(w) == \E e \in Paths(Edges(w), Cardinality(Edges(w))) : e[1] = e[2]

\* the site is a finite link graph without cycles, and links are all a
\* session finds on it
Acyclic(w) ==
  /\ w.landings = {} /\ w.submitLandings = {} /\ w.json = {} /\ w.forms = {}
  /\ ~Cyclic(w)

\* the requests the page at url may make while its session runs
PageRequests(w, url) == {e.request : e \in {x \in w.requests : x.at = url}}

\* the responses the page at url may receive, with the property a JSON body
\* holds and the number of objects between the body and that property
PageJson(w, url) ==
  {[key |-> e.key, value |-> e.value, nesting |-> e.nesting, response |-> e.response] :
     e \in {x \in w.json : x.at = url}}

AcyclicWorlds == {w \in Worlds : Acyclic(w)}

CyclicWorlds == {w \in Worlds : Cyclic(w)}

\* the form elements, in document order, the page at cur may hold
PageForms(w, cur) ==
  LET here == {f \in w.forms : f.at = cur}
  IN  IF here = {} THEN {<<>>} ELSE {Truncate(f.elements, MaxForms) : f \in here}

\* the matches of the patterns in the inline scripts of the page at cur
PageScripts(w, cur) ==
  LET here == {x \in w.scripts : x.at = cur}
  IN  IF here = {} THEN {<<>>} ELSE {x.matches : x \in here}

\* the src and href of the scripts, stylesheets and images of the page at cur
PageResources(w, cur) ==
  LET here == {r \in w.resources : r.at = cur}
  IN  IF here = {} THEN {<<>>} ELSE {r.srcs : r \in here}

(***************************************************************************)
(* State of the run.                                                       *)
(***************************************************************************)
EmptyPageData ==
  [ links |-> <<>>, forms |-> <<>>, endpoints |-> {}, requestsToReplicateForPage |-> <<>>,
    reactComponents |-> {}, jsFrameworks |-> {} ]

\* the state of one call of processUrlAndExtractData
NewSession(depth) ==
  [ depth     |-> depth,
    pc        |-> "newPage",
    cur       |-> ABOUT_BLANK,      \* page.url()
    pageData  |-> EmptyPageData,    \* the pageData of the initial extractInfo call
    events    |-> 0,                \* network events seen so far
    newLinks  |-> <<>>,             \* newLinksFromPage
    formsLeft |-> <<>>,             \* the forms the for-of loop has not reached
    urlBefore |-> <<>>,             \* urlBeforeSubmit
    result    |-> <<>>,             \* the value the promise resolves to
    extracted |-> {},               \* the links its extractions have stored so far
    document  |-> <<>>,             \* the forms of the document of the initial load
    submitted |-> <<>>,             \* the forms handed to submitForm so far
    postForms |-> {},               \* the forms its post-submission extractions stored
    typed     |-> <<>>,             \* the calls of page.type of its submissions
    navigations  |-> 0,             \* the calls of page.goto
    scrolls      |-> 0,             \* the auto-scrolls that have ended
    dwells       |-> <<>>,          \* the waits of its calls of extractInfo
    totalHeight  |-> 0,             \* totalHeight of the auto-scroll
    scrollHeight |-> 0,             \* document.body.scrollHeight
    grown        |-> 0,             \* how often the page has grown
    walkDepth    |-> 0,             \* the deepest recursion of a JSON walk
    merged    |-> <<>>,             \* the pageData lines 611-616 have merged, if any
    rejected  |-> FALSE,            \* the promise rejects
    fault     |-> "none" ]          \* "navigation": page.goto failed; "extraction": a
                                    \* later step of extractInfo threw; "exception":
                                    \* the catch block at line 666 ran

Init ==
  /\ world \in Worlds
  /\ cpc = "launch"
  /\ browser = "none"
  /\ pages = {}
  /\ queue = << [url |-> startUrl, depth |-> 0] >>
  /\ activePages = << >>
  /\ raceSettled = FALSE
  /\ visited = {}
  /\ linksFound = {}
  /\ formsFound = {}
  /\ endpointsFound = {}
  /\ requestsToReplicate = <<>>
  /\ reactComponentsFound = {}
  /\ jsFrameworksDetected = {}
  /\ launches = 0
  /\ closes = 0
  /\ processed = << >>
  /\ sessionFailed = FALSE

active == DOMAIN activePages

aggregation == << linksFound, formsFound, endpointsFound, requestsToReplicate,
                  reactComponentsFound, jsFrameworksDetected >>

history == << launches, closes, processed, sessionFailed >>

(***************************************************************************)
(* crawl: the coordinator.                                                 *)
(***************************************************************************)
\* a variant of the test of the outer while that ignores the sessions in flight
LoopTopQueueOnly(q, a) == IF Len(q) > 0 THEN "fill" ELSE "closing"

\* the test of the outer while, and the finally block when it fails
LoopTop(q, a) == IF Len(q) > 0 \/ a # {} THEN "fill" ELSE "closing"

\* line 706: the item is dropped
CrawlGuard(item) == item.url \in visited \/ item.depth > MAX_DEPTH

\* line 599: processUrlAndExtractData returns [] at once
VisitedGuard(url, depth) == url \in visited \/ depth > MAX_DEPTH

\* a variant of line 602 that leaves the insert out
VisitedAddOmitted(url) == visited

\* line 602
VisitedAdd(url) == visited \cup {url}

\* a variant of the capacity test that admits one session more
HasCapacityInclusive == Cardinality(active) <= world.concurrency

\* the test of the inner while, with the queue not empty
HasCapacity == Cardinality(active) < world.concurrency

\* one more passage of url through the guard
Count(bag, url) ==
  IF url \in DOMAIN bag THEN [bag EXCEPT ![url] = @ + 1] ELSE (url :> 1) @@ bag

\* puppeteer.launch returns the browser, or throws and crawl() rejects
Launch ==
  /\ cpc = "launch"
  /\ \/ /\ browser' = "open"
        /\ launches' = launches + 1
        /\ cpc' = LoopTop(queue, active)
     \/ /\ cpc' = "failed"
        /\ UNCHANGED << browser, launches >>
  /\ UNCHANGED << world, pages, queue, activePages, raceSettled, visited, aggregation,
                  closes, processed, sessionFailed >>

\* a variant of line 704 that removes the last item of the queue
Popped(q) == SubSeq(q, 1, Len(q) - 1)

\* line 704: the queue queue.shift() leaves
Shifted(q) == Tail(q)

\* one iteration of the inner while: an item leaves the queue and is dropped or
\* handed to processUrlAndExtractData, which runs up to its first await
Dispatch ==
  /\ cpc = "fill"
  /\ Len(queue) > 0
  /\ HasCapacity
  /\ LET item == Head(queue)
     IN  /\ queue' = Shifted(queue)
         /\ IF CrawlGuard(item)
              THEN UNCHANGED << activePages, visited, processed >>
            ELSE IF VisitedGuard(item.url, item.depth)
              THEN /\ activePages' = (item.url :> [NewSession(item.depth) EXCEPT !.pc = "resolved"])
                                       @@ activePages
                   /\ UNCHANGED << visited, processed >>
            ELSE /\ visited' = VisitedAdd(item.url)
                 /\ processed' = Count(processed, item.url)
                 /\ activePages' = (item.url :> NewSession(item.depth)) @@ activePages
  /\ UNCHANGED << world, cpc, browser, pages, raceSettled, aggregation, launches, closes,
                  sessionFailed >>

\* the inner while ends: Promise.race is awaited, or the loop breaks
FillEnd ==
  /\ cpc = "fill"
  /\ ~(Len(queue) > 0 /\ HasCapacity)
  /\ IF active # {}
       THEN cpc' = "race" /\ raceSettled' = FALSE
     ELSE IF Len(queue) = 0
       THEN cpc' = "closing" /\ raceSettled' = raceSettled
     ELSE cpc' = LoopTop(queue, active) /\ raceSettled' = raceSettled
  /\ UNCHANGED << world, browser, pages, queue, activePages, visited, aggregation,
                  history >>

\* Promise.race resolves once one of its promises has settled
RaceResume ==
  /\ cpc = "race"
  /\ raceSettled
  /\ cpc' = IF Len(queue) = 0 /\ active # {} THEN "sleep" ELSE LoopTop(queue, active)
  /\ raceSettled' = FALSE
  /\ UNCHANGED << world, browser, pages, queue, activePages, visited, aggregation,
                  history >>

\* sleep(100) is over
SleepDone ==
  /\ cpc = "sleep"
  /\ cpc' = LoopTop(queue, active)
  /\ UNCHANGED << world, browser, pages, queue, activePages, raceSettled, visited,
                  aggregation, history >>

\* the finally block of crawl: browser.close()
BrowserClose ==
  /\ cpc = "closing"
  /\ browser' = "closed"
  /\ closes' = closes + 1
  /\ pages' = {}
  /\ cpc' = "done"
  /\ UNCHANGED << world, queue, activePages, raceSettled, visited, aggregation, launches,
                  processed, sessionFailed >>

(***************************************************************************)
(* processUrlAndExtractData: one session.  Its steps run while crawl() is  *)
(* suspended at an await.                                                  *)
(***************************************************************************)
Suspended == cpc \in {"race", "sleep", "closing"}

At(u, pc) == Suspended /\ u \in active /\ activePages[u].pc = pc

SetSession(u, s) == [activePages EXCEPT ![u] = s]

\* a variant of the catch block that returns without the finally block
ThrownUnreleased(s, hasMessage) ==
  [s EXCEPT !.pc = "resolved", !.result = <<>>, !.rejected = ~hasMessage,
            !.fault = "exception"]

\* the catch block at line 666 and the return through finally: the session
\* returns [], or rejects when the error has no message to log
Thrown(s, hasMessage) ==
  [s EXCEPT !.pc = "close", !.result = <<>>, !.rejected = ~hasMessage,
            !.fault = "exception"]

\* a variant of line 611 that merges no link
MergeLinksNone(data) == linksFound

\* lines 611-616: the initial findings are merged into the global collections
MergeLinks(data) == linksFound \cup Range(data.links)

MergeForms(data) == formsFound \cup Range(data.forms)

MergeEndpoints(data) == endpointsFound \cup data.endpoints

\* a variant of line 616 that appends no request the list holds already
MergeRequestsOnce(data) ==
  IF Range(data.requestsToReplicateForPage) \subseteq Range(requestsToReplicate)
    THEN requestsToReplicate
  ELSE requestsToReplicate \o data.requestsToReplicateForPage

\* line 616
MergeRequests(data) == requestsToReplicate \o data.requestsToReplicateForPage

\* a variant of line 621 without the depth test
SubmitsFormsAnyDepth(data, depth) == Len(data.forms) > 0

\* line 621: the forms of the initial load are submitted
SubmitsForms(data, depth) == Len(data.forms) > 0 /\ depth < MAX_DEPTH

\* lines 611-663 up to the next await, with the pageData extractInfo returned
AfterInitial(u, s, data) ==
  /\ linksFound' = MergeLinks(data)
  /\ formsFound' = MergeForms(data)
  /\ endpointsFound' = MergeEndpoints(data)
  /\ reactComponentsFound' = reactComponentsFound \cup data.reactComponents
  /\ jsFrameworksDetected' = jsFrameworksDetected \cup data.jsFrameworks
  /\ requestsToReplicate' = MergeRequests(data)
  /\ activePages' = SetSession(u,
       IF SubmitsForms(data, s.depth)
         THEN [s EXCEPT !.pageData = data, !.newLinks = data.links,
                        !.extracted = Range(data.links), !.merged = <<data>>,
                        !.formsLeft = data.forms, !.pc = "submit"]
       ELSE [s EXCEPT !.pageData = data, !.newLinks = data.links,
                      !.extracted = Range(data.links), !.merged = <<data>>,
                      !.result = data.links, !.pc = "close"])

\* browser.newPage(), setupPage and the set-up of the observers
SessNewPage(u) ==
  /\ At(u, "newPage")
  /\ \/ /\ browser = "open"
        /\ pages' = pages \cup {u}
        /\ activePages' = SetSession(u, [activePages[u] EXCEPT !.pc = "goto"])
        /\ UNCHANGED sessionFailed
     \/ /\ world.faults \/ browser # "open"
        /\ \E hasMessage \in BOOLEAN :
             activePages' = SetSession(u, Thrown(activePages[u], hasMessage))
        /\ pages' = pages
        /\ sessionFailed' = TRUE
  /\ UNCHANGED << world, cpc, browser, queue, raceSettled, visited, aggregation, launches,
                  closes, processed >>

\* the request observer of the page (lines 186-199)
OnRequest(data, r) ==
  LET recorded == IF r.method # GET
                    THEN [data EXCEPT !.requestsToReplicateForPage =
                            Append(@, [url |-> r.url, method |-> r.method])]
                  ELSE data
  IN  IF r.resourceType \in {"xhr", "fetch"} \/ Includes(r.url, API)
           \/ Includes(r.url, GRAPHQL)
        THEN [recorded EXCEPT !.endpoints =
                @ \cup {INTERCEPTED \o SP \o r.method \o SP \o r.url}]
      ELSE recorded

ObserversOn(u) ==
  /\ Suspended
  /\ u \in active
  /\ u \in pages
  /\ activePages[u].pc \in {"goto", "dom", "submit", "reextract", "close"}
  /\ activePages[u].events < MaxEvents

\* a request of the page reaches the request observer
SessRequest(u) ==
  /\ ObserversOn(u)
  /\ \E r \in PageRequests(world, u) :
       activePages' = SetSession(u,
         [activePages[u] EXCEPT !.pageData = OnRequest(@, r), !.events = @ + 1])
  /\ UNCHANGED << world, cpc, browser, pages, queue, raceSettled, visited, aggregation,
                  history >>

DigitChar(d) ==
  CASE d = 0 -> "0" [] d = 1 -> "1" [] d = 2 -> "2" [] d = 3 -> "3" [] d = 4 -> "4"
    [] d = 5 -> "5" [] d = 6 -> "6" [] d = 7 -> "7" [] d = 8 -> "8" [] OTHER -> "9"

\* `${status}`: the decimal digits of a number
RECURSIVE Decimal(_)
Decimal(n) == IF n < 10 THEN <<DigitChar(n)>> ELSE Append(Decimal(n \div 10), DigitChar(n % 10))

\* a variant of line 208 that keeps the status out of the tag
ApiErrorBare(response) ==
  <<"[", "A", "P", "I", "_", "E", "R", "R", "O", "R", "]">> \o SP \o Decimal(response.status)
    \o SP \o response.method \o SP \o response.url

\* line 208: the entry of a failed API call
ApiError(response) ==
  API_ERROR_ \o Decimal(response.status) \o <<"]">> \o SP \o response.method
    \o SP \o response.url

\* the response observer of the page (lines 201-219), for a response whose
\* body, when it is JSON, holds value under key below nesting objects
OnResponse(data, response, nesting, key, value, url) ==
  Bind(IF (response.resourceType \in {"xhr", "fetch"} \/ Includes(response.url, API))
            /\ (response.status < 200 \/ response.status >= 400)
         THEN [data EXCEPT !.endpoints = @ \cup {ApiError(response)}]
       ELSE data, LAMBDA tagged :
    IF response.json THEN extractDataFromJson(tagged, nesting, key, value, url)
    ELSE tagged)

\* a response reaches the response observer, which walks its body when it is
\* JSON
SessJsonResponse(u) ==
  /\ ObserversOn(u)
  /\ \E entry \in PageJson(world, u) :
       activePages' = SetSession(u,
         [activePages[u] EXCEPT !.pageData = OnResponse(@, entry.response, entry.nesting,
                                                        entry.key, entry.value, u),
                                !.walkDepth =
                                   IF entry.response.json /\ WalkDepth(entry.nesting) > @
                                     THEN WalkDepth(entry.nesting)
                                   ELSE @,
                                !.events = @ + 1])
  /\ UNCHANGED << world, cpc, browser, pages, queue, raceSettled, visited, aggregation,
                  history >>

\* a variant of lines 244 and 260 that waits as long after a submission
DwellFull(isInitialExtraction) == WAIT_TIME

\* lines 244 and 260: the wait of extractInfo
Dwell(isInitialExtraction) ==
  IF isInitialExtraction THEN WAIT_TIME ELSE WAIT_TIME \div 2

\* page.goto and the permissions, up to sleep(WAIT_TIME): the page lands on a
\* URL, or the navigation fails and extractInfo returns the pageData as its
\* observers left it
SessGoto(u) ==
  /\ At(u, "goto")
  /\ \/ /\ \E land \in {u} \cup world.landings :
             activePages' = SetSession(u,
               [activePages[u] EXCEPT !.cur = land, !.pc = "dom",
                                      !.navigations = @ + 1,
                                      !.dwells = Append(@, Dwell(TRUE)),
                                      !.scrollHeight = world.scrollHeight])
        /\ UNCHANGED << aggregation, sessionFailed >>
     \/ /\ world.faults
        /\ AfterInitial(u, [activePages[u] EXCEPT !.fault = "navigation",
                                                  !.navigations = @ + 1],
                        activePages[u].pageData)
        /\ sessionFailed' = TRUE
  /\ UNCHANGED << world, cpc, browser, pages, queue, raceSettled, visited, launches, closes,
                  processed >>

\* the forms extracted before the first one whose action does not resolve
RECURSIVE UntilInvalid(_)
UntilInvalid(q) ==
  Bind(q, LAMBDA left :
    IF left = <<>> \/ Head(left).action = Invalid THEN <<>>
    ELSE <<Head(left)>> \o UntilInvalid(Tail(left)))

\* lines 264-409 on the settled page: frameworks, anchors, forms, inline
\* scripts, resources; a
\* form action that does not resolve throws out of the loop over the forms
\* into the catch block at line 427
DomExtraction(data, url, cur, anchors, formElements, matches, srcs, fw) ==
  Bind(ExtractForms(formElements, url, cur), LAMBDA forms :
    Bind([data EXCEPT
            !.jsFrameworks = @ \cup fw,
            !.reactComponents = @ \cup (IF "React" \in fw THEN {"x-app"} ELSE {}),
            !.links = ExtractLinks(@, anchors, cur),
            !.forms = @ \o UntilInvalid(forms)], LAMBDA upToForms :
      IF \E i \in DOMAIN forms : forms[i].action = Invalid THEN upToForms
      ELSE ExtractResources(ExtractScripts(upToForms, matches, cur), srcs, cur)))

DISTANCE == 100

\* a variant of line 250 that does not add up the scrolled distance
ScrolledNothing(totalHeight) == totalHeight

\* line 250: window.scrollBy(0, distance); totalHeight += distance
Scrolled(totalHeight) == totalHeight + DISTANCE

\* line 251: the test that ends the auto-scroll
ScrollEnds(totalHeight, scrollHeight) == totalHeight >= scrollHeight

\* lines 249-252: a tick of the timer of the auto-scroll that does not end
\* it; the page may load more content when it is scrolled
SessScroll(u) ==
  /\ At(u, "dom")
  /\ ~ScrollEnds(Scrolled(activePages[u].totalHeight), activePages[u].scrollHeight)
  /\ \E more \in {0} \cup (IF activePages[u].grown < world.growth THEN {2 * DISTANCE}
                            ELSE {}) :
       activePages' = SetSession(u,
         [activePages[u] EXCEPT !.totalHeight = Scrolled(@),
                                !.scrollHeight = @ + more,
                                !.grown = IF more > 0 THEN @ + 1 ELSE @])
  /\ UNCHANGED << world, cpc, browser, pages, queue, raceSettled, visited, aggregation,
                  history >>

\* the tick that ends the auto-scroll, the initial extraction of the settled
\* page, and the merge that follows it; when a step of the extraction throws,
\* extractInfo returns the pageData as it is by then
SessDom(u) ==
  /\ At(u, "dom")
  /\ \/ /\ ScrollEnds(Scrolled(activePages[u].totalHeight), activePages[u].scrollHeight)
        /\ \E anchors \in PageAnchors(world, activePages[u].cur),
              formElements \in PageForms(world, activePages[u].cur),
              matches \in PageScripts(world, activePages[u].cur),
              srcs \in PageResources(world, activePages[u].cur),
              fw \in world.frameworks :
             \E data \in {DomExtraction(activePages[u].pageData, u, activePages[u].cur,
                                        anchors, formElements, matches, srcs, fw)} :
               AfterInitial(u, [activePages[u] EXCEPT
                                  !.totalHeight = Scrolled(@), !.scrolls = @ + 1,
                                  !.document =
                                    ExtractForms(formElements, u, activePages[u].cur)],
                            data)
        /\ UNCHANGED sessionFailed
     \/ /\ world.faults
        /\ AfterInitial(u, [activePages[u] EXCEPT !.fault = "extraction"],
                        activePages[u].pageData)
        /\ sessionFailed' = TRUE
  /\ UNCHANGED << world, cpc, browser, pages, queue, raceSettled, visited, launches, closes,
                  processed >>

\* submitForm on the next form: new URL(action, originalUrl) throws, or the
\* submission leaves the page where it is or navigates it
SessSubmit(u) ==
  /\ At(u, "submit")
  /\ LET s == activePages[u]
         form == Head(s.formsLeft)
     IN  IF ResolveUrl(form.action, u) = Invalid
           THEN /\ \E hasMessage \in BOOLEAN :
                     activePages' = SetSession(u,
                       Thrown([s EXCEPT !.submitted = Append(@, form)], hasMessage))
                /\ sessionFailed' = TRUE
         ELSE /\ \E after \in {s.cur} \cup world.submitLandings :
                   activePages' = SetSession(u,
                     [s EXCEPT !.urlBefore = s.cur, !.cur = after, !.pc = "reextract",
                               !.submitted = Append(@, form),
                               !.typed = @ \o TypedInto(form.fields)])
              /\ UNCHANGED sessionFailed
  /\ UNCHANGED << world, cpc, browser, pages, queue, raceSettled, visited, aggregation,
                  launches, closes, processed >>

\* lines 634-640: the links not yet in linksFound, in order
RECURSIVE NewPostLinks(_, _)
NewPostLinks(links, found) ==
  Bind2(links, found, LAMBDA left, seen :
    IF left = <<>> THEN <<>>
    ELSE IF Head(left) \in seen THEN NewPostLinks(Tail(left), seen)
    ELSE <<Head(left)>> \o NewPostLinks(Tail(left), seen \cup {Head(left)}))

\* line 655: the submission navigated to an unvisited URL under the origin
NavigatedPostForm(urlAfter, urlBefore, url) ==
  /\ urlAfter # urlBefore
  /\ urlAfter \notin visited
  /\ StartsWith(urlAfter, Origin(url))

\* extractInfo(urlAfterSubmit, page, false), whose pageData no observer
\* writes to, and the merge of lines 634-661, which leaves its forms out
SessReextract(u) ==
  /\ At(u, "reextract")
  /\ \E anchors \in PageAnchors(world, activePages[u].cur),
        formElements \in PageForms(world, activePages[u].cur),
        matches \in PageScripts(world, activePages[u].cur),
        srcs \in PageResources(world, activePages[u].cur),
        s \in {activePages[u]}, fw \in world.frameworks :
     \E post \in {DomExtraction(EmptyPageData, s.cur, s.cur, anchors, formElements,
                                matches, srcs, fw)} :
     \E fresh \in {NewPostLinks(post.links, linksFound)},
        nav \in {NavigatedPostForm(s.cur, s.urlBefore, u)} :
       LET links1   == s.newLinks \o fresh
           links2   == IF nav /\ s.cur \notin Range(links1)
                         THEN Append(links1, s.cur) ELSE links1
           left     == Tail(s.formsLeft)
           seen     == [s EXCEPT !.newLinks = links2, !.formsLeft = left,
                                 !.dwells = Append(@, Dwell(FALSE)),
                                 !.extracted = @ \cup Range(post.links),
                                 !.postForms = @ \cup Range(post.forms)]
       IN  /\ linksFound' = linksFound \cup Range(fresh)
           /\ endpointsFound' = endpointsFound \cup post.endpoints
           /\ requestsToReplicate' = requestsToReplicate \o post.requestsToReplicateForPage
           /\ reactComponentsFound' = reactComponentsFound \cup post.reactComponents
           /\ jsFrameworksDetected' = jsFrameworksDetected \cup post.jsFrameworks
           /\ visited' = IF nav THEN visited \cup {s.cur} ELSE visited
           /\ activePages' = SetSession(u,
                IF left = <<>> THEN [seen EXCEPT !.result = links2, !.pc = "close"]
                ELSE [seen EXCEPT !.pc = "submit"])
  /\ UNCHANGED << world, cpc, browser, pages, queue, raceSettled, formsFound, history >>

\* the finally block: page.close() when a page was opened
SessClose(u) ==
  /\ At(u, "close")
  /\ pages' = pages \ {u}
  /\ activePages' = SetSession(u, [activePages[u] EXCEPT !.pc = "resolved"])
  /\ UNCHANGED << world, cpc, browser, queue, raceSettled, visited, aggregation, history >>

(***************************************************************************)
(* crawl: the callbacks on a session's promise.                            *)
(***************************************************************************)
\* a variant of line 718 that never finds the link
LinkInQueueNever(q, link) == FALSE

\* line 718: queue.some(qItem => qItem.url === link)
LinkInQueue(q, link) == \E i \in DOMAIN q : q[i].url = link

\* a variant of line 719 without the depth test
CanEnqueueAnyDepth(link, q, depth) ==
  /\ link \notin visited
  /\ ~LinkInQueue(q, link)

\* line 719
CanEnqueue(link, q, depth) ==
  /\ link \notin visited
  /\ ~LinkInQueue(q, link)
  /\ depth + 1 <= MAX_DEPTH

\* a variant of line 720 that gives a link the depth of the page it is on
ChildDepthSame(depth) == depth

\* line 720: the depth of a link of a page at depth
ChildDepth(depth) == depth + 1

\* newLinks.forEach of the then callback
RECURSIVE Enqueue(_, _, _)
Enqueue(q, newLinks, depth) ==
  Bind2(q, newLinks, LAMBDA items, left :
    IF left = <<>> THEN items
    ELSE Enqueue(IF CanEnqueue(Head(left), items, depth)
                   THEN Append(items, [url |-> Head(left), depth |-> ChildDepth(depth)])
                 ELSE items,
                 Tail(left), depth))

\* a promise of activePages settles: a pending Promise.race resolves
Settles == cpc = "race" \/ raceSettled

\* a variant of the callbacks that leaves the entry in activePages
RemoveNothing(f, u) == f

\* activePages.delete(item.url)
Remove(f, u) == [x \in (DOMAIN f) \ {u} |-> f[x]]

\* the then callback: the returned links are enqueued, the entry deleted
Complete(u) ==
  /\ At(u, "resolved")
  /\ ~activePages[u].rejected
  /\ queue' = Enqueue(queue, activePages[u].result, activePages[u].depth)
  /\ activePages' = Remove(activePages, u)
  /\ raceSettled' = Settles
  /\ UNCHANGED << world, cpc, browser, pages, visited, aggregation, history >>

\* the catch callback: the entry is deleted
CompleteRejected(u) ==
  /\ At(u, "resolved")
  /\ activePages[u].rejected
  /\ activePages' = Remove(activePages, u)
  /\ raceSettled' = Settles
  /\ UNCHANGED << world, cpc, browser, pages, queue, visited, aggregation, history >>

Next ==
  \/ Launch
  \/ Dispatch
  \/ FillEnd
  \/ RaceResume
  \/ SleepDone
  \/ BrowserClose
  \/ \E u \in active : SessNewPage(u)
  \/ \E u \in active : SessGoto(u)
  \/ \E u \in active : SessRequest(u)
  \/ \E u \in active : SessJsonResponse(u)
  \/ \E u \in active : SessScroll(u)
  \/ \E u \in active : SessDom(u)
  \/ \E u \in active : SessSubmit(u)
  \/ \E u \in active : SessReextract(u)
  \/ \E u \in active : SessClose(u)
  \/ \E u \in active : Complete(u)
  \/ \E u \in active : CompleteRejected(u)

Spec == Init /\ [][Next]_vars

\* every awaited operation of a session settles, every timer fires and every
\* settled promise has its callbacks run: the run does not stop while a step
\* is possible
FairSpec == Spec /\ WF_vars(Next)

(***************************************************************************)
(* Properties.                                                             *)
(***************************************************************************)

\* C1: no URL is processed more than once in a run: processUrlAndExtractData
\* passes its visited guard at most once per distinct URL string, under every
\* interleaving of session launches and completions.
C1_ProcessedAtMostOnce == \A u \in DOMAIN processed : processed[u] <= 1

\* a session returns a link to a URL that was processed before it completed
C1_Witness ==
  \E u \in active :
    /\ activePages[u].pc = "resolved"
    /\ \E l \in Range(activePages[u].result) : l # u /\ l \in DOMAIN processed

\* C2: every item dispatched to a session has depth <= MAX_DEPTH, the start
\* URL is dispatched at depth 0, and a link returned by a session running at
\* depth d is enqueued only with depth d + 1 and only when d + 1 <= MAX_DEPTH.
C2_DepthBound ==
  [][ /\ \A u \in active' \ active :
          /\ activePages'[u].depth <= MAX_DEPTH
          /\ u = startUrl => activePages'[u].depth = 0
      /\ \A i \in DOMAIN queue' :
          i > Len(queue) =>
            \E u \in active \ active' :
              /\ queue'[i].depth = activePages[u].depth + 1
              /\ queue'[i].depth <= MAX_DEPTH ]_vars

\* a session at depth MAX_DEPTH has returned a link to an unvisited URL
C2_Witness ==
  \E u \in active :
    /\ activePages[u].depth = MAX_DEPTH
    /\ activePages[u].pc = "resolved"
    /\ \E l \in Range(activePages[u].result) : l \notin visited

\* C3: at every instant the entries of activePages, and so the pages opened
\* and not yet closed, are at most MAX_CONCURRENT_PAGES.
C3_ConcurrencyCap ==
  /\ Cardinality(active) <= MAX_CONCURRENT_PAGES
  /\ pages \subseteq active

\* the cap is reached with every page open and an item waiting in the queue
C3_Witness ==
  /\ Cardinality(active) = MAX_CONCURRENT_PAGES
  /\ pages = active
  /\ Len(queue) > 0

\* C4: every link in the final link set has the same origin (scheme, host and
\* port) as the start URL, for every page content.
C4_SameOriginLinks ==
  cpc = "done" => \A l \in linksFound : Origin(l) = Origin(startUrl)

\* C5: for every finite acyclic same-origin link graph, when every launched
\* session eventually completes, the crawl loop reaches the state where the
\* frontier is empty and no session is in flight, and then terminates.
C5_AcyclicTerminates ==
  (world \in AcyclicWorlds /\ browser = "open")
    ~> (cpc = "done" /\ queue = <<>> /\ active = {})

\* the crawl of an acyclic site has ended after processing pages at every
\* depth up to MAX_DEPTH
C5_Witness ==
  /\ world \in AcyclicWorlds
  /\ cpc = "done"
  /\ Cardinality(DOMAIN processed) = MAX_DEPTH + 2

\* C6: for every finite link graph that contains cycles, the crawl terminates
\* and has launched at most one session per distinct URL.
C6_CyclicTerminates ==
  (world \in CyclicWorlds /\ browser = "open")
    ~> (cpc = "done" /\ active = {} /\ \A u \in DOMAIN processed : processed[u] <= 1)

\* a session has returned a link to itself or to the page that linked to it
C6_Witness ==
  /\ world \in CyclicWorlds
  /\ \E u \in active :
       /\ activePages[u].pc = "resolved"
       /\ u \in Range(activePages[u].result)
       /\ startUrl \in Range(activePages[u].result)

\* the step in which the navigation of session u fails
NavigationFails(u) ==
  /\ u \in active /\ u \in active'
  /\ activePages[u].pc = "goto"
  /\ activePages'[u].fault = "navigation"

\* C7: a session whose navigation fails returns no links for requeueing and
\* adds nothing to the aggregated link, form, endpoint, framework, component
\* and replayable-request collections, whatever its observers saw before.
C7_FailedNavigationAddsNothing ==
  [][ \A u \in active :
        NavigationFails(u) =>
          /\ aggregation' = aggregation
          /\ activePages'[u].result = <<>> ]_vars

\* C7, amended: a session whose navigation fails extracts nothing from the
\* document and submits no form; it returns for requeueing exactly the links
\* its observers took from JSON responses before the failure, and adds to the
\* aggregated collections exactly the links, endpoints and replayable
\* requests its observers recorded before the failure.
C7_FailedNavigationAddsObserved ==
  [][ \A u \in active :
        NavigationFails(u) =>
          /\ linksFound' = linksFound \cup Range(activePages[u].pageData.links)
          /\ endpointsFound' = endpointsFound \cup activePages[u].pageData.endpoints
          /\ requestsToReplicate' =
               requestsToReplicate \o activePages[u].pageData.requestsToReplicateForPage
          /\ formsFound' = formsFound
          /\ jsFrameworksDetected' = jsFrameworksDetected
          /\ reactComponentsFound' = reactComponentsFound
          /\ activePages'[u].result = activePages[u].pageData.links
          /\ activePages'[u].pc = "close" ]_vars

\* the navigation of a session has failed after its observers took a link
\* from a JSON response
C7_Witness ==
  \E u \in active :
    /\ activePages[u].fault = "navigation"
    /\ activePages[u].result # <<>>
    /\ Range(activePages[u].result) \subseteq linksFound

\* the pages of the site map
SitePages == {ResolveUrl(SiteMap[i], startUrl) : i \in DOMAIN SiteMap}

\* an item of url x waits in the frontier with a depth within the bound
InFrontier(x) ==
  \E i \in DOMAIN queue : queue[i].url = x /\ queue[i].depth <= MAX_DEPTH

\* C8: a session failure never aborts the run: after a session has failed,
\* every item still in the frontier whose URL is unvisited and whose depth is
\* within the bound is eventually dispatched.
C8_FrontierDispatchedAfterFailure ==
  \A x \in SitePages :
    (sessionFailed /\ InFrontier(x) /\ x \notin visited) ~> (x \in DOMAIN processed)

\* C9: every page opened by a session is closed on every exit path before the
\* session leaves the in-flight set, and when the run ends no page is open.
C9_PagesReleased ==
  /\ \A u \in active : activePages[u].pc = "resolved" => u \notin pages
  /\ \A u \in pages : u \in active
  /\ cpc \in {"closing", "done"} => pages = {}

\* a session whose form submission threw has returned, its page closed
C9_Witness ==
  \E u \in active :
    /\ activePages[u].pc = "resolved"
    /\ activePages[u].fault = "exception"
    /\ activePages[u].pageData.forms # <<>>

\* C10: the browser is acquired once before any session is launched and
\* released once, only after the crawl loop has exited and with no session
\* in flight; no session is launched after the release.
C10_BrowserLifecycle ==
  /\ [](/\ launches <= 1 /\ closes <= launches
        /\ (active # {} \/ pages # {}) => (browser = "open" /\ launches = 1)
        /\ closes = 1 <=> cpc = "done"
        /\ browser = "closed" <=> cpc = "done"
        /\ cpc = "done" => (active = {} /\ queue = <<>> /\ launches = 1))
  /\ (browser = "open") ~> (browser = "closed" /\ closes = 1)

\* the run has ended, the browser released, after sessions that failed and
\* sessions that did not
C10_Witness ==
  /\ browser = "closed"
  /\ sessionFailed
  /\ Cardinality(DOMAIN processed) > 2

\* a step a session takes after its first await: a session in flight moves on
SessionStep ==
  \E u \in active : u \in DOMAIN activePages' /\ activePages'[u] # activePages[u]

\* C11: the visited set, the frontier and the aggregated collections change
\* only in steps of the coordinator (dispatch and the callbacks of crawl),
\* never in a step a session takes after its first await.
C11_SharedStateOnCoordinatorTurn ==
  [][SessionStep => UNCHANGED << visited, queue, aggregation >>]_vars

\* C12: the list a session returns for requeueing holds every link its
\* initial extraction and its post-submission extractions stored, whatever
\* other sessions have found by then.
C12_ReturnsEveryExtractedLink ==
  \A u \in active :
    (activePages[u].pc = "resolved" /\ activePages[u].fault # "exception")
      => activePages[u].extracted \subseteq Range(activePages[u].result)

\* C13: every non-GET request the observers of a session's page have seen by
\* the time the page is closed, those a form submission triggers included, is
\* in the list of replayable requests of the run.
C13_ObservedRequestsReplayable ==
  \A u \in active :
    activePages[u].pc = "resolved"
      => Range(activePages[u].pageData.requestsToReplicateForPage)
           \subseteq Range(requestsToReplicate)

\* the links and endpoints the JSON walk produces on the page at u from a
\* body holding one string under one key
JsonFindings(u, key, value) ==
  Bind(JsonEntry(activePages[u].pageData, key, value, u), LAMBDA walked :
    << walked.links, walked.endpoints >>)

\* C14: sensitive-key detection records the key and the source page, never
\* the value: two JSON bodies a page may receive that differ only in the
\* string under a key containing "token" or "session" produce the same links
\* and the same endpoints.
C14_SensitiveValueNotRecorded ==
  \A u \in active : \A e1, e2 \in PageJson(world, u) :
    ( /\ ObserversOn(u)
      /\ e1.key = e2.key
      /\ Includes(ToLowerCase(e1.key), TOKEN) \/ Includes(ToLowerCase(e1.key), SESSION) )
      => JsonFindings(u, e1.key, e1.value) = JsonFindings(u, e2.key, e2.value)

\* C15: a session in which an unexpected fault occurs (its catch block ran)
\* counts as zero contribution: the aggregated collections are what they
\* would be had the session found nothing; in particular they hold no form
\* descriptor whose source is the URL of the session, which no other session
\* can add.
C15_FaultedSessionContributesNothing ==
  \A u \in active :
    (activePages[u].pc = "resolved" /\ activePages[u].fault = "exception")
      => \A f \in formsFound : f.url # u

\* C16: a session hands a form to submitForm only when its initial load found
\* forms and its depth is below MAX_DEPTH, and only forms of the initial load:
\* a session at depth MAX_DEPTH submits none, and a form first seen in a
\* post-submission extraction is never submitted.
C16_SubmitsInitialFormsBelowMaxDepth ==
  \A u \in active :
    LET s == activePages[u]
    IN  /\ (s.pc \in {"submit", "reextract"} \/ s.submitted # <<>>)
             => s.depth < MAX_DEPTH /\ Len(s.pageData.forms) > 0
        /\ Range(s.submitted) \subseteq Range(s.pageData.forms)
        /\ Range(s.submitted) \cap (s.postForms \ Range(s.pageData.forms)) = {}

\* a session at depth MAX_DEPTH whose initial load found a form has returned
\* without a submission
C16_Witness ==
  \E u \in active :
    /\ activePages[u].pc = "resolved"
    /\ activePages[u].depth = MAX_DEPTH
    /\ Len(activePages[u].pageData.forms) > 0
    /\ activePages[u].submitted = <<>>

\* C17: within one session each distinct form of the initial load, told apart
\* by the content of its descriptor, is submitted exactly once: no descriptor
\* is handed to submitForm twice, and a session that went through its form
\* loop has submitted every descriptor of its initial load.
C17_DistinctFormsSubmittedOnce ==
  \A u \in active :
    LET s == activePages[u]
    IN  /\ \A i, j \in DOMAIN s.submitted : s.submitted[i] = s.submitted[j] => i = j
        /\ (s.pc = "resolved" /\ s.fault = "none" /\ s.depth < MAX_DEPTH)
             => Range(s.submitted) = Range(s.pageData.forms)

\* C18: all findings of a post-submission extraction are merged into the
\* results of the run: every form descriptor a post-submission extraction
\* stored is in the form list once the extraction has been merged.
C18_PostSubmissionFormsMerged ==
  \A u \in active :
    activePages[u].fault # "exception" => activePages[u].postForms \subseteq formsFound

\* C19: a URL that does not resolve skips only its own candidate: every form
\* of the document whose action resolves is among the forms the extraction
\* stored, whatever the other forms of the document are.
C19_BadCandidateSkipsOnlyItself ==
  \A u \in active :
    \A i \in DOMAIN activePages[u].document :
      activePages[u].document[i].action # Invalid
        => activePages[u].document[i] \in Range(activePages[u].pageData.forms)

\* the bare-fragment anchors the page a session has navigated to may hold
BareFragments(u) ==
  UNION {{anchors[i] : i \in {j \in DOMAIN anchors : anchors[j][1] = "#"}} :
         anchors \in PageAnchors(world, activePages[u].cur)}

\* C20: for a bare-fragment href the stored link is the URL the page has
\* navigated to, without fragment, and not the URL that was requested, also
\* when a redirect made the two differ: so it is in part_001 and in
\* advanced-crawler.js.
C20_BareFragmentStoresCurrentUrl ==
  \A u \in active :
    activePages[u].pc = "dom" =>
      \A href \in BareFragments(u) :
        /\ AnchorLink(<<>>, href, activePages[u].cur)
             = << SplitFirst(activePages[u].cur, "#") >>
        /\ AnchorLinkOfUrl(<<>>, href, u) = << SplitFirst(activePages[u].cur, "#") >>

\* C21: a form element without method attribute is recorded with method GET,
\* and one without action attribute, or with an empty one, is recorded with
\* the current URL of the page as its action: so it is in part_001 and in
\* advanced-crawler.js.
C21_FormDefaults ==
  \A u \in active :
    activePages[u].pc = "dom" =>
      \A elements \in PageForms(world, activePages[u].cur) :
        \A i \in DOMAIN elements :
          /\ elements[i].method = <<>>
               => /\ FormDetails(elements[i], u, activePages[u].cur).method = GET
                  /\ FormDetailsOfUrl(elements[i], u).method = GET
          /\ elements[i].action = <<>>
               => /\ FormDetails(elements[i], u, activePages[u].cur).action
                       = activePages[u].cur
                  /\ FormDetailsOfUrl(elements[i], u).action = activePages[u].cur

\* the URL an endpoint entry ends with
UrlOfEntry(entry) == Drop(entry, LastIndexOf(entry, " "))

\* what the claim C22 demands of the entries a session's page yields for a
\* candidate of its inline scripts
CandidateRule(candidate, entries, cur) ==
  IF StartsWith(candidate, <<"/">>)
    THEN \A e \in entries : Origin(UrlOfEntry(e)) = Origin(cur)
  ELSE IF StartsWith(candidate, HTTP) \/ StartsWith(candidate, HTTPS)
    THEN \A e \in entries : UrlOfEntry(e) = candidate
  ELSE entries = {}

\* C22: for a candidate of an inline script, when it starts with "/" the
\* endpoint emitted has the origin of the current page, when it starts with
\* http:// or https:// it is emitted as it is, and any other candidate (a
\* relative path such as api/login) yields no endpoint entry
C22_ScriptCandidateResolution ==
  \A u \in active :
    activePages[u].pc = "dom" =>
      \A matches \in PageScripts(world, activePages[u].cur) :
        \A i \in DOMAIN matches :
          /\ CandidateRule(ExtractedUrlString(matches[i]),
                           ScriptEntries(matches[i], activePages[u].cur),
                           activePages[u].cur)
          /\ CandidateRule(ExtractedUrlString(matches[i]),
                           ScriptEntriesOfUrl(matches[i], u), activePages[u].cur)

\* the entry the claim C23 names for a match whose URL resolves to full on a
\* page of the given origin
NamedEntry(match, full, origin) ==
  CASE match.patternIndex = 6 -> SCRIPT_EVIDENT \o SP \o POST \o SP \o origin \o GRAPHQL
    [] match.patternIndex = 0 /\ match.groups[3] # <<>> ->
         SCRIPT_EVIDENT \o SP \o ToUpperCase(match.groups[3]) \o SP \o full
    [] match.patternIndex = 1 ->
         SCRIPT_EVIDENT \o SP \o ToUpperCase(match.groups[2]) \o SP \o full
    [] match.patternIndex = 2
         /\ ToLowerCase(match.groups[2]) \in {<<"g", "e", "t">>, <<"p", "o", "s", "t">>} ->
         SCRIPT_EVIDENT \o SP \o ToUpperCase(match.groups[2]) \o SP \o full
    [] OTHER -> SCRIPT_URL_ONLY \o SP \o full

\* C23: a match of an inline script whose URL resolves yields exactly one
\* entry: [SCRIPT_EVIDENT], the method in upper case and the resolved URL when
\* the match shows a method, [SCRIPT_URL_ONLY] and the resolved URL when it
\* shows none, and [SCRIPT_EVIDENT] POST <origin>/graphql for an occurrence
\* of /graphql
C23_ScriptEntryFormat ==
  \A u \in active :
    activePages[u].pc = "dom" =>
      \A matches \in PageScripts(world, activePages[u].cur) :
        \A i \in DOMAIN matches :
          LET cur   == activePages[u].cur
              full  == FullEndpointURL(ExtractedUrlString(matches[i]), cur)
              older == ScriptEntriesOfUrl(matches[i], u)
          IN  /\ full # Invalid =>
                   ScriptEntries(matches[i], cur) = {NamedEntry(matches[i], full, Origin(cur))}
              /\ older # {} =>
                   older = {NamedEntry(matches[i], full, Origin(u))}

\* a session has stored the entries of fetch('/api/x', {method: 'post'}) and
\* of an occurrence of /graphql
C23_Witness ==
  \E u \in active :
    /\ activePages[u].pc = "close"
    /\ { SCRIPT_EVIDENT \o SP \o POST \o SP \o startUrl \o <<"a", "p", "i", "/", "x">>,
         SCRIPT_URL_ONLY \o SP \o startUrl \o <<"a", "p", "i", "/", "x">>,
         SCRIPT_EVIDENT \o SP \o <<"G", "E", "T">> \o SP \o HTTP \o <<"b", "/", "v">>,
         SCRIPT_EVIDENT \o SP \o POST \o SP \o startUrl \o <<"g", "r", "a", "p", "h", "q", "l">> }
         \subseteq activePages[u].pageData.endpoints

\* the tags of the vocabulary that are fixed strings
FixedTags ==
  { INTERCEPTED, SCRIPT_URL_ONLY, SCRIPT_EVIDENT, RESOURCE_URL, JSON_API_RESPONSE,
    JSON_SENSITIVE_KEY }

\* the entry starts with [API_ERROR_<status>], the status a number of three
\* digits
ApiErrorTagged(entry) ==
  /\ StartsWith(entry, API_ERROR_)
  /\ Len(entry) >= Len(API_ERROR_) + 5
  /\ \A k \in 1..3 :
       entry[Len(API_ERROR_) + k] \in {"0", "1", "2", "3", "4", "5", "6", "7", "8", "9"}
  /\ entry[Len(API_ERROR_) + 4] = "]"
  /\ entry[Len(API_ERROR_) + 5] = " "

\* the number of tags of the vocabulary the entry starts with
TagsOf(entry) ==
  Cardinality({t \in FixedTags : StartsWith(entry, t \o SP)})
    + (IF ApiErrorTagged(entry) THEN 1 ELSE 0)

\* C24: every entry of the endpoint collection of the run, and of the page
\* findings of every session, starts with exactly one tag of the vocabulary
\* [INTERCEPTED], [SCRIPT_URL_ONLY], [SCRIPT_EVIDENT], [RESOURCE_URL],
\* [JSON_API_RESPONSE], [JSON_SENSITIVE_KEY], [API_ERROR_<status>]
C24_EndpointTags ==
  /\ \A e \in endpointsFound : TagsOf(e) = 1
  /\ \A u \in active : \A e \in activePages[u].pageData.endpoints : TagsOf(e) = 1

\* the collection of the run holds the entry of a failed API call
C24_Witness ==
  \E e \in endpointsFound : ApiErrorTagged(e)

\* merging data once more leaves the five sets of the store as they are
SetsUnchangedByMerge(data) ==
  /\ MergeLinks(data) = linksFound
  /\ MergeForms(data) = formsFound
  /\ MergeEndpoints(data) = endpointsFound
  /\ reactComponentsFound \cup data.reactComponents = reactComponentsFound
  /\ jsFrameworksDetected \cup data.jsFrameworks = jsFrameworksDetected

\* C25 as stated: merging the findings a session has merged a second time
\* leaves every part of the store unchanged: links, forms, endpoints,
\* frameworks, components and replayable requests
C25_MergeIdempotent ==
  \A u \in active : \A i \in DOMAIN activePages[u].merged :
    /\ SetsUnchangedByMerge(activePages[u].merged[i])
    /\ MergeRequests(activePages[u].merged[i]) = requestsToReplicate

\* C25, amended: merging the findings a session has merged a second time
\* leaves links, forms, endpoints, frameworks and components unchanged, and
\* appends the replayable requests of the findings once more
C25_MergeIdempotentOnSets ==
  \A u \in active : \A i \in DOMAIN activePages[u].merged :
    /\ SetsUnchangedByMerge(activePages[u].merged[i])
    /\ Len(MergeRequests(activePages[u].merged[i]))
         = Len(requestsToReplicate)
             + Len(activePages[u].merged[i].requestsToReplicateForPage)

\* a session has merged findings that hold a replayable request and an endpoint
C25_Witness ==
  \E u \in active : \E i \in DOMAIN activePages[u].merged :
    /\ activePages[u].merged[i].requestsToReplicateForPage # <<>>
    /\ activePages[u].merged[i].endpoints # {}
    /\ activePages[u].merged[i].forms # <<>>

\* C26: every form descriptor in the form list of the run has method GET or
\* POST, whatever the method attribute of the form element is
C26_FormMethodGetOrPost ==
  \A f \in formsFound : f.method \in {GET, POST}

\* C27: the frontier is first-in first-out: a step changes the queue only by
\* removing its first item or by adding items behind the ones it holds, and a
\* session is started only for the item that was first in the queue; so of
\* two items that are both dispatched, the one enqueued earlier is dispatched
\* earlier
C27_FrontierFifo ==
  [][ /\ \/ queue' = queue
         \/ Len(queue) > 0 /\ queue' = Tail(queue)
         \/ Len(queue') > Len(queue) /\ SubSeq(queue', 1, Len(queue)) = queue
      /\ \A u \in DOMAIN activePages' \ active :
           Len(queue) > 0 /\ Head(queue).url = u /\ queue' = Tail(queue) ]_vars

\* a session other than the first has been started while two or more items it
\* was enqueued before wait in the queue
C27_Witness ==
  /\ cpc = "fill"
  /\ Len(queue) >= 2
  /\ \E u \in active : u # startUrl /\ activePages[u].pc = "newPage"

\* C28: faults of the interaction with a form are contained: a session whose
\* initial load found forms to submit ends with every one of them handed to
\* submitForm and followed by its post-submission extraction; no fault in one
\* form ends the session before its remaining forms
C28_FormFaultsContained ==
  \A u \in active : \A i \in DOMAIN activePages[u].merged :
    ( /\ activePages[u].pc = "resolved"
      /\ SubmitsForms(activePages[u].merged[i], activePages[u].depth) )
      => /\ activePages[u].submitted = activePages[u].merged[i].forms
         /\ activePages[u].fault # "exception"

\* the keywords of the claim C29, in its order, with their literals
Keywords ==
  << [word |-> <<"e", "m", "a", "i", "l">>, literal |-> EMAIL_VALUE],
     [word |-> <<"s", "e", "a", "r", "c", "h">>, literal |-> SEARCH_VALUE],
     [word |-> <<"q", "u", "e", "r", "y">>, literal |-> QUERY_VALUE],
     [word |-> <<"n", "a", "m", "e">>, literal |-> NAME_VALUE] >>

\* the types the claim C29 names as typed into, with their fixed literals
\* (empty for the two whose literal depends on the name)
TypedTypes ==
  { [type |-> <<"t", "e", "x", "t">>, literal |-> <<>>],
    [type |-> <<"t", "e", "x", "t", "a", "r", "e", "a">>, literal |-> <<>>],
    [type |-> <<"e", "m", "a", "i", "l">>, literal |-> EMAIL_VALUE],
    [type |-> <<"p", "a", "s", "s", "w", "o", "r", "d">>, literal |-> PASSWORD_VALUE],
    [type |-> <<"n", "u", "m", "b", "e", "r">>, literal |-> NUMBER_VALUE],
    [type |-> <<"t", "e", "l">>, literal |-> TEL_VALUE],
    [type |-> <<"u", "r", "l">>, literal |-> URL_VALUE] }

\* the literal the claim C29 gives a field of a typed type
Literal(type, name) ==
  LET fixed == (CHOOSE t \in TypedTypes : t.type = type).literal
      found == {k \in DOMAIN Keywords : Includes(ToLowerCase(name), Keywords[k].word)}
  IN  IF fixed # <<>> THEN fixed
      ELSE IF found = {} THEN TEXT_VALUE
      ELSE Keywords[CHOOSE k \in found : \A j \in found : k <= j].literal

\* the fields of the forms a session has submitted that submitForm can
\* address on the page
AddressedFields(u) ==
  UNION { Range(activePages[u].submitted[i].fields) : i \in DOMAIN activePages[u].submitted }

\* C29: the value typed into a field is a function of its declared type and
\* its name: a text field or textarea gets the literal of the first of the
\* keywords email, search, query, name its lower-cased name contains, or the
\* generic literal; email, password, number, tel and url fields get their
\* fixed literals; hidden fields and fields of any other type are not typed
\* into
C29_TypedValueByTypeAndName ==
  \A u \in active :
    Range(activePages[u].typed) =
      { [selector |-> Selector(fd), value |-> Literal(fd.type, fd.name)] :
          fd \in {f \in AddressedFields(u) :
                    /\ Selector(f) # <<>>
                    /\ \E t \in TypedTypes : t.type = f.type} }

\* a session has filled the fields of the sign-up form
C29_Witness ==
  \E u \in active :
    /\ Len(activePages[u].typed) = 10
    /\ \E k \in DOMAIN activePages[u].typed :
         /\ activePages[u].typed[k].selector = Selector(SignupFields[2])
         /\ activePages[u].typed[k].value = SEARCH_VALUE

\* C30: the links the walk of a JSON response body has added to the findings
\* of a session's page are in the list the session returns for requeueing,
\* whether the response handler ran before or after the initial extraction
\* returned
C30_JsonLinksReturned ==
  \A u \in active :
    (activePages[u].pc = "resolved" /\ activePages[u].fault # "exception")
      => Range(activePages[u].pageData.links) \subseteq Range(activePages[u].result)

\* C31: within a session page.goto is called at most once, and once before
\* any extraction; the page is scrolled at most once, after the navigation;
\* the first wait of extractInfo is WAIT_TIME and every later one, of an
\* extraction after a form submission, is half of it, and such an extraction
\* neither navigates nor scrolls
C31_NavigatesOnceBeforeExtraction ==
  \A u \in active :
    LET s == activePages[u]
    IN  /\ s.navigations <= 1
        /\ s.scrolls <= 1
        /\ (s.merged # <<>> \/ s.scrolls = 1 \/ s.dwells # <<>>) => s.navigations = 1
        /\ Len(s.dwells) <= 1 + Len(s.submitted)
        /\ \A k \in DOMAIN s.dwells :
             s.dwells[k] = IF k = 1 THEN WAIT_TIME ELSE WAIT_TIME \div 2

\* a session has navigated and scrolled once and has extracted the page again
\* after each of two submissions
C31_Witness ==
  \E u \in active :
    /\ activePages[u].navigations = 1
    /\ activePages[u].scrolls = 1
    /\ Len(activePages[u].dwells) = 3
    /\ Len(activePages[u].submitted) = 2

\* the auto-scroll of the session of x is under way
Scrolling(x) == activePages[x].pc = "dom"

\* C32: the auto-scroll of a page whose height stops growing ends: it adds
\* 100 to the scrolled distance at every tick, it goes on while the distance
\* is below the height of the page, and it ends at the first tick at which
\* the distance has reached the height; a session leaves the auto-scroll
\* only when it has ended or the extraction has failed
C32_ScrollTerminates ==
  /\ [](\A u \in active :
          LET s == activePages[u]
          IN  /\ s.totalHeight % DISTANCE = 0
              /\ (Scrolling(u) /\ s.totalHeight > 0) => s.totalHeight < s.scrollHeight
              /\ (s.merged # <<>> /\ s.fault = "none") => s.scrolls = 1
              /\ s.scrolls = 1 => /\ s.totalHeight >= s.scrollHeight
                                  /\ \/ s.totalHeight = DISTANCE
                                     \/ s.totalHeight - DISTANCE < s.scrollHeight)
  /\ (\E x \in active : Scrolling(x)) ~> (\A x \in active : ~Scrolling(x))

\* a page has grown while it was scrolled and its auto-scroll has ended
\* after five ticks
C32_Witness ==
  \E u \in active :
    /\ activePages[u].scrolls = 1
    /\ activePages[u].grown = 1
    /\ activePages[u].totalHeight = 5 * DISTANCE

\* C33: the recursive walk over a JSON response body never recurses deeper
\* than a fixed cap: the depth of the walks of a session stays below the
\* nesting of the deepest body the site serves.
C33_JsonWalkDepthCapped ==
  \A u \in active : activePages[u].walkDepth < MaxNesting

\* a URL with a fragment part
HasFragment(l) == "#" \in Range(l)

AbsoluteUrl(s) == IsAbsolute(s) /\ ParseAbsolute(s) # Invalid

\* C35: the action of every form descriptor is an absolute URL, whatever the
\* action attribute of the form element is, a relative path whose text begins
\* with "http" included.
C35_FormActionAbsolute ==
  \A f \in formsFound : AbsoluteUrl(f.action)

\* C36: every URL of the visited set had its own session launched: it passed
\* the guard at line 599 of a session the scheduler dispatched for it.
C36_VisitedOnlyByDispatch ==
  \A x \in visited : x \in DOMAIN processed /\ processed[x] >= 1

\* C37: the frontier holds at most one item per URL and no item deeper than
\* MAX_DEPTH, and a step puts into it only items whose URL is not visited and
\* was not queued before the step.
C37_FrontierItemsUniqueAndBounded ==
  /\ [](/\ \A i, j \in DOMAIN queue : queue[i].url = queue[j].url => i = j
        /\ \A i \in DOMAIN queue : queue[i].depth <= MAX_DEPTH)
  /\ [][\A item \in Range(queue') \ Range(queue) :
          /\ item.url \notin visited
          /\ \A i \in DOMAIN queue : queue[i].url # item.url
          /\ item.depth <= MAX_DEPTH]_vars

\* the sessions of /1 and /2, which both link to /3, have completed and /3
\* waits in the frontier at depth 2, next to nothing else
C37_Witness ==
  /\ world = DagWorld
  /\ {PageUrl("1"), PageUrl("2")} \subseteq visited
  /\ active \cap {PageUrl("1"), PageUrl("2")} = {}
  /\ \E i \in DOMAIN queue : queue[i] = [url |-> PageUrl("3"), depth |-> 2]

\* the URLs of the site of SerialWorld and RaceWorld
SiteUrls == {startUrl} \cup {e[2] : e \in Edges(SerialWorld)}

\* the shortest link distance of the URLs of that site from the start URL
Distance ==
  [x \in SiteUrls |->
     IF x = startUrl THEN 0
     ELSE CHOOSE n \in 1..Cardinality(SiteUrls) :
            /\ <<startUrl, x>> \in Paths(Edges(SerialWorld), n - 1)
            /\ \A m \in 1..(n - 1) : <<startUrl, x>> \notin Paths(Edges(SerialWorld), m - 1)]

\* the URLs whose distance is at most MAX_DEPTH
WithinMaxDepth == {x \in SiteUrls : Distance[x] <= MAX_DEPTH}

\* C38: with a concurrency cap of 1, no forms and no failing session the crawl
\* is a strict breadth-first search: at most one session is in flight, every
\* URL is dispatched at a depth equal to its shortest link distance from the
\* start URL, and every URL whose distance is at most MAX_DEPTH is eventually
\* processed.
C38_SerialBreadthFirst ==
  /\ [](world = SerialWorld
          => /\ Cardinality(active) <= 1
             /\ \A u \in active : activePages[u].depth = Distance[u])
  /\ (world = SerialWorld /\ browser = "open")
       ~> (WithinMaxDepth \subseteq DOMAIN processed)

\* the serial crawl has ended: /5, three links from the start over /1 and /4
\* and four over /2, /3 and /4, has been processed, and /6 has not
C38_Witness ==
  /\ world = SerialWorld
  /\ cpc = "done"
  /\ DOMAIN processed = WithinMaxDepth
  /\ PageUrl("5") \in WithinMaxDepth
  /\ PageUrl("6") \notin visited

\* C39: with a concurrency cap above 1 and no failing session, every URL whose
\* shortest link distance from the start URL is at most MAX_DEPTH is
\* eventually processed, in whatever order the concurrent sessions complete.
C39_ConcurrentReachesAll ==
  (world = RaceWorld /\ browser = "open")
    ~> (WithinMaxDepth \subseteq DOMAIN processed)

====
